---- MODULE Spec2Model ----
(***************************************************************************)
(* A model of src/cultfit_crawler.py (class CultFitCrawler): the media     *)
(* extraction of one pack item (_extract_media_from_item with              *)
(* _parse_curefit_url, _collect_media_recursive, _extract_from_pack_detail *)
(* and the closing de-duplication), and crawl() with its two persisted     *)
(* JSON documents.                                                         *)
(*                                                                         *)
(* Python strings are sequences of one-character strings, so that          *)
(* startswith, endswith, lower, split and the percent-decoding are         *)
(* computed, not assumed.  A JSON value is a tagged record:                *)
(*   [t |-> "str", s |-> chars]   [t |-> "int", n |-> n]   [t |-> "null"]  *)
(*   [t |-> "list", xs |-> <<values>>]                                     *)
(*   [t |-> "dict", kv |-> << <<key, value>>, ... >>]  (insertion order)   *)
(* A Python call that may raise returns a record with a field ok.          *)
(***************************************************************************)
EXTENDS Integers, Sequences, FiniteSets, TLC

VARIABLES
    warned,        \* self._warned_login_required
    warnings,      \* history: the number of login warnings printed so far
    marker_met,    \* history: a login marker has been met
    call,          \* history: the last _extract_media_from_item call and its outcome
    ncalls,        \* history: the number of _extract_media_from_item calls made
    web,           \* the site: what the fetch of each section and detail page gives
    sections,      \* self.sections
    media_items,   \* self.media_items
    by_section,    \* self.media_by_section: <<name, list>> in insertion order
    pc,            \* where crawl() stands
    idx,           \* crawl(): the 1-based index of the section to process next
    todo,          \* crawl(): the widgets and the items of the section still to walk
    runs,          \* history: the number of crawl() runs that have returned
    run1,          \* history: media_items as the first crawl() run left it
    files,         \* data_root: all_media.json and media_by_section.json
    catalogs,      \* history: the catalogs crawl() has completely written so far
    seen,          \* what a concurrent reader of the two documents last read
    dl,            \* download_media(): the manifest, the disk, the tasks and the semaphore
    fcall          \* history: the call of a static helper at hand, its input and result

vars == <<warned, warnings, marker_met, call, ncalls, web, sections, media_items,
          by_section, pc, idx, todo, runs, run1, files, catalogs, seen, dl, fcall>>

(***************************************************************************)
(* Strings                                                                 *)
(***************************************************************************)
Str_session == <<"s","e","s","s","i","o","n">>
Str_Session == <<"S","e","s","s","i","o","n">>
Str_SessionSp == <<"S","e","s","s","i","o","n"," ">>
Str_Intro == <<"I","n","t","r","o">>
Str_Main == <<"M","a","i","n">>
Str_mp3 == <<".","m","p","3">>
Str_mp4 == <<".","m","p","4">>
Str_audio == <<"a","u","d","i","o">>
Str_untitled == <<"u","n","t","i","t","l","e","d">>
Str_UnknownPack == <<"U","n","k","n","o","w","n"," ","P","a","c","k">>
Str_curefit == <<"c","u","r","e","f","i","t",":","/","/">>
Str_absoluteAudioUrl == <<"a","b","s","o","l","u","t","e","A","u","d","i","o","U","r","l">>
Str_absoluteVideoUrl == <<"a","b","s","o","l","u","t","e","V","i","d","e","o","U","r","l">>
Str_title == <<"t","i","t","l","e">>
Str_packId == <<"p","a","c","k","I","d">>
Str_contentId == <<"c","o","n","t","e","n","t","I","d">>
Str_SHOW_LOGIN_MODAL == <<"S","H","O","W","_","L","O","G","I","N","_","M","O","D","A","L">>
UpperAlpha == <<"A","B","C","D","E","F","G","H","I","J","K","L","M","N","O","P","Q","R","S","T","U","V","W","X","Y","Z">>
LowerAlpha == <<"a","b","c","d","e","f","g","h","i","j","k","l","m","n","o","p","q","r","s","t","u","v","w","x","y","z">>
Digits == <<"0","1","2","3","4","5","6","7","8","9">>
IllegalFsChars == {"<", ">", ":", "\\", "/", "|", "?", "*"}

StartsWith(s, p) == Len(s) >= Len(p) /\ SubSeq(s, 1, Len(p)) = p

EndsWith(s, p) == Len(s) >= Len(p) /\ SubSeq(s, Len(s) - Len(p) + 1, Len(s)) = p

LowerChar(c) ==
    IF \E i \in 1..Len(UpperAlpha) : UpperAlpha[i] = c
    THEN LowerAlpha[CHOOSE i \in 1..Len(UpperAlpha) : UpperAlpha[i] = c]
    ELSE c

Lower(s) == [i \in 1..Len(s) |-> LowerChar(s[i])]

\* str.find(c): the first index of c in s, 0 when there is none
IndexOf(s, c) ==
    IF \E i \in 1..Len(s) : s[i] = c
    THEN CHOOSE i \in 1..Len(s) : s[i] = c /\ \A j \in 1..(i - 1) : s[j] # c
    ELSE 0

\* str.rfind(c)
LastIndexOf(s, c) ==
    IF \E i \in 1..Len(s) : s[i] = c
    THEN CHOOSE i \in 1..Len(s) : s[i] = c /\ \A j \in (i + 1)..Len(s) : s[j] # c
    ELSE 0

RECURSIVE SplitOn(_, _)
SplitOn(s, c) ==
    LET At(i) == IF i = 0 THEN <<s>>
                 ELSE <<SubSeq(s, 1, i - 1)>> \o SplitOn(SubSeq(s, i + 1, Len(s)), c)
    IN  At(IndexOf(s, c))

RECURSIVE LStrip(_, _)
LStrip(s, cs) == IF s # <<>> /\ s[1] \in cs THEN LStrip(Tail(s), cs) ELSE s

RECURSIVE RStrip(_, _)
RStrip(s, cs) ==
    IF s # <<>> /\ s[Len(s)] \in cs THEN RStrip(SubSeq(s, 1, Len(s) - 1), cs) ELSE s

Strip(s, cs) == RStrip(LStrip(s, cs), cs)

Whitespace == {" "}

\* re.sub(cs+, r, s): every maximal run of characters of cs becomes r
RECURSIVE SubRuns(_, _, _)
SubRuns(s, cs, r) ==
    IF s = <<>> THEN <<>>
    ELSE IF s[1] \in cs
         THEN <<r>> \o SubRuns(LStrip(s, cs), cs, r)
         ELSE <<s[1]>> \o SubRuns(Tail(s), cs, r)

MaxSlugLen == 80

\* sanitize(text, max_len=80)
Sanitize(text) ==
    LET Illegal(t) == [i \in 1..Len(t) |-> IF t[i] \in IllegalFsChars THEN "_" ELSE t[i]]
        Cut(t) == SubSeq(t, 1, IF Len(t) < MaxSlugLen THEN Len(t) ELSE MaxSlugLen)
        OrUntitled(t) == IF t = <<>> THEN Str_untitled ELSE t
    IN  OrUntitled(Cut(Strip(SubRuns(SubRuns(Illegal(Strip(text, Whitespace)),
                                             Whitespace, "_"),
                                     {"_"}, "_"),
                             {".", "_"})))

(***************************************************************************)
(* JSON values                                                             *)
(***************************************************************************)
JNull == [t |-> "null"]
JStr(s) == [t |-> "str", s |-> s]
JInt(n) == [t |-> "int", n |-> n]
JList(xs) == [t |-> "list", xs |-> xs]
JDict(kv) == [t |-> "dict", kv |-> kv]

IsStr(v) == v.t = "str"
IsDict(v) == v.t = "dict"
IsList(v) == v.t = "list"

\* Python truthiness of a JSON value
Truthy(v) ==
    CASE v.t = "str" -> v.s # <<>>
      [] v.t = "int" -> v.n # 0
      [] v.t = "list" -> v.xs # <<>>
      [] v.t = "dict" -> v.kv # <<>>
      [] OTHER -> FALSE

\* a or b
Or(a, b) == IF Truthy(a) THEN a ELSE b

\* k in d
Has(d, k) == \E i \in 1..Len(d.kv) : d.kv[i][1] = k

\* d.get(k, dflt)
GetD(d, k, dflt) ==
    IF Has(d, k) THEN d.kv[CHOOSE i \in 1..Len(d.kv) : d.kv[i][1] = k][2] ELSE dflt

\* d.get(k)
Get(d, k) == GetD(d, k, JNull)

\* list(d.values())
Values(d) == [i \in 1..Len(d.kv) |-> d.kv[i][2]]

(***************************************************************************)
(* _build_local_path                                                       *)
(***************************************************************************)
SchemeChars ==
    {UpperAlpha[i] : i \in 1..Len(UpperAlpha)} \cup {LowerAlpha[i] : i \in 1..Len(LowerAlpha)}
    \cup {Digits[i] : i \in 1..Len(Digits)} \cup {"+", "-", "."}

CutAt(s, c) ==
    LET At(i) == IF i = 0 THEN s ELSE SubSeq(s, 1, i - 1)
    IN  At(IndexOf(s, c))

\* urlparse(url).path
UrlPath(url) ==
    LET AfterNetloc(r, j) == IF j = 0 THEN <<>> ELSE SubSeq(r, j, Len(r))
        NoNetloc(r) == AfterNetloc(r, IndexOf(r, "/"))
        Path(rest) == IF StartsWith(rest, <<"/", "/">>)
                      THEN NoNetloc(SubSeq(rest, 3, Len(rest)))
                      ELSE rest
        HasScheme(u, i) ==
            /\ i > 1
            /\ \A j \in 1..(i - 1) : u[j] \in SchemeChars
            /\ u[1] \notin ({Digits[k] : k \in 1..Len(Digits)} \cup {"+", "-", "."})
        NoScheme(u, i) == Path(IF HasScheme(u, i) THEN SubSeq(u, i + 1, Len(u)) ELSE u)
        NoQuery(u) == NoScheme(u, IndexOf(u, ":"))
    IN  NoQuery(CutAt(CutAt(url, "#"), "?"))

\* os.path.splitext(p)[1]
SplitExt(p) ==
    LET Ext(sep, dot) ==
            IF dot > sep /\ (\E k \in (sep + 1)..(dot - 1) : p[k] # ".")
            THEN SubSeq(p, dot, Len(p))
            ELSE <<>>
    IN  Ext(LastIndexOf(p, "/"), LastIndexOf(p, "."))

Str_media == <<"m","e","d","i","a">>

\* _build_local_path(section, pack, session_title, url); section, pack and
\* session_title are JSON values, url a string.  sanitize raises
\* AttributeError on a value that is no string.
BuildLocalPath(section, pack, session_title, url) ==
    LET OrDefault(e) ==
            IF e # <<>> THEN e ELSE IF EndsWith(url, Str_audio) THEN Str_mp3 ELSE Str_mp4
        Build(t) ==
            IF IsStr(t) /\ IsStr(section) /\ IsStr(pack)
            THEN [ok |-> TRUE,
                  path |-> <<Str_media, Sanitize(section.s), Sanitize(pack.s),
                             Sanitize(t.s) \o OrDefault(SplitExt(UrlPath(url)))>>]
            ELSE [ok |-> FALSE]
    IN  Build(IF Truthy(session_title) THEN session_title ELSE JStr(Str_session))

\* one media record of the catalog
Entry(section, pack, desc, title, mtype, url, path) ==
    [section |-> section, pack |-> pack, pack_description |-> desc,
     session_title |-> title, media_type |-> mtype, cdn_url |-> url, local_path |-> path]

\* "audio" if url.endswith(".mp3") else "video"
TypeOf(url) == IF EndsWith(url, Str_mp3) THEN "audio" ELSE "video"

(***************************************************************************)
(* _parse_curefit_url                                                      *)
(***************************************************************************)
HexPairs == << <<"2","F">>, <<"3","A">>, <<"3","F">>, <<"3","D">>, <<"2","6">>, <<"2","5">>, <<"2","0">> >>
HexChars == <<"/", ":", "?", "=", "&", "%", " ">>

\* urllib.parse.unquote on the escapes of HexPairs
RECURSIVE Unquote(_)
Unquote(s) ==
    IF s = <<>> THEN <<>>
    ELSE IF s[1] = "%" /\ Len(s) >= 3 /\ (\E i \in 1..Len(HexPairs) : HexPairs[i] = <<s[2], s[3]>>)
         THEN <<HexChars[CHOOSE i \in 1..Len(HexPairs) : HexPairs[i] = <<s[2], s[3]>>]>>
              \o Unquote(SubSeq(s, 4, Len(s)))
         ELSE <<s[1]>> \o Unquote(Tail(s))

PlusToSpace(s) == [i \in 1..Len(s) |-> IF s[i] = "+" THEN " " ELSE s[i]]

\* parse_qs(query): the <<name, value>> pairs in order; a pair with no "=" or
\* with an empty value is dropped (keep_blank_values is False)
RECURSIVE QsPairs(_)
QsPairs(fields) ==
    LET Pair(f, i) ==
            IF i = 0 \/ i = Len(f) THEN <<>>
            ELSE << <<Unquote(PlusToSpace(SubSeq(f, 1, i - 1))),
                      Unquote(PlusToSpace(SubSeq(f, i + 1, Len(f))))>> >>
    IN  IF fields = <<>> THEN <<>>
        ELSE Pair(fields[1], IndexOf(fields[1], "=")) \o QsPairs(Tail(fields))

ParseQs(query) == QsPairs(SplitOn(query, "&"))

\* k in params
QsHas(params, k) == \E i \in 1..Len(params) : params[i][1] = k

\* params[k][0]
QsFirst(params, k) ==
    params[CHOOSE i \in 1..Len(params) :
               params[i][1] = k /\ \A j \in 1..(i - 1) : params[j][1] # k][2]

\* _parse_curefit_url(cure_url): a record with has_url (whether "media_url"
\* is in the result), media_url, media_type, has_title, session_title
NoInfo == [has_url |-> FALSE, media_url |-> <<>>, media_type |-> "none",
           has_title |-> FALSE, session_title |-> <<>>]

\* a variant of ParseCurefitUrl that looks for absoluteVideoUrl first
ParseCurefitUrlVideoFirst(cure_url) ==
    LET Info(params) ==
            [has_url |-> QsHas(params, Str_absoluteAudioUrl)
                         \/ QsHas(params, Str_absoluteVideoUrl),
             media_url |-> IF QsHas(params, Str_absoluteVideoUrl)
                           THEN Unquote(QsFirst(params, Str_absoluteVideoUrl))
                           ELSE IF QsHas(params, Str_absoluteAudioUrl)
                           THEN Unquote(QsFirst(params, Str_absoluteAudioUrl))
                           ELSE <<>>,
             media_type |-> IF QsHas(params, Str_absoluteVideoUrl) THEN "video"
                            ELSE IF QsHas(params, Str_absoluteAudioUrl) THEN "audio"
                            ELSE "none",
             has_title |-> QsHas(params, Str_title),
             session_title |-> IF QsHas(params, Str_title)
                               THEN QsFirst(params, Str_title) ELSE <<>>]
        Query(u, q) == IF q = 0 THEN <<>> ELSE SubSeq(u, q + 1, Len(u))
    IN  IF ~(IsStr(cure_url) /\ StartsWith(cure_url.s, Str_curefit))
        THEN NoInfo
        ELSE Info(ParseQs(Query(cure_url.s, IndexOf(cure_url.s, "?"))))

ParseCurefitUrl(cure_url) ==
    LET Info(params) ==
            [has_url |-> QsHas(params, Str_absoluteAudioUrl)
                         \/ QsHas(params, Str_absoluteVideoUrl),
             media_url |-> IF QsHas(params, Str_absoluteAudioUrl)
                           THEN Unquote(QsFirst(params, Str_absoluteAudioUrl))
                           ELSE IF QsHas(params, Str_absoluteVideoUrl)
                           THEN Unquote(QsFirst(params, Str_absoluteVideoUrl))
                           ELSE <<>>,
             media_type |-> IF QsHas(params, Str_absoluteAudioUrl) THEN "audio"
                            ELSE IF QsHas(params, Str_absoluteVideoUrl) THEN "video"
                            ELSE "none",
             has_title |-> QsHas(params, Str_title),
             session_title |-> IF QsHas(params, Str_title)
                               THEN QsFirst(params, Str_title) ELSE <<>>]
        Query(u, q) == IF q = 0 THEN <<>> ELSE SubSeq(u, q + 1, Len(u))
    IN  IF ~(IsStr(cure_url) /\ StartsWith(cure_url.s, Str_curefit))
        THEN NoInfo
        ELSE Info(ParseQs(Query(cure_url.s, IndexOf(cure_url.s, "?"))))

(***************************************************************************)
(* _collect_media_recursive                                                *)
(***************************************************************************)
UrlKeys == <<"downloadUrl", "absoluteUrl", "URL">>

\* the first of downloadUrl, absoluteUrl, URL that the node has with a string
\* value; 0 when there is none
UrlKeyIndex(node) ==
    IF \E i \in 1..3 : Has(node, UrlKeys[i]) /\ IsStr(Get(node, UrlKeys[i]))
    THEN CHOOSE i \in 1..3 :
             /\ Has(node, UrlKeys[i]) /\ IsStr(Get(node, UrlKeys[i]))
             /\ \A j \in 1..(i - 1) : ~(Has(node, UrlKeys[j]) /\ IsStr(Get(node, UrlKeys[j])))
    ELSE 0

\* a walk that never falls back on the inherited title
WalkTitleNoInherited(node, inherited) ==
    Or(Get(node, "title"), Or(Get(node, "subTitle"), JStr(Str_Session)))

\* node.get("title") or node.get("subTitle") or inherited_title or "Session"
WalkTitle(node, inherited) ==
    Or(Get(node, "title"), Or(Get(node, "subTitle"), Or(inherited, JStr(Str_Session))))

\* the inherited title handed to the children of a mapping node
ChildTitle(node, inherited) == Or(inherited, Get(node, "title"))

Raised == [ok |-> FALSE, items |-> <<>>]

RECURSIVE CollectMediaRecursive(_, _, _, _, _)
RECURSIVE CollectEach(_, _, _, _, _)

\* the walk over the values xs in order, all with the same inherited title
CollectEach(xs, section, pack, desc, inherited) ==
    LET Both(h, r) == IF ~r.ok THEN Raised ELSE [ok |-> TRUE, items |-> h.items \o r.items]
        Then(h) == IF ~h.ok THEN Raised
                   ELSE Both(h, CollectEach(Tail(xs), section, pack, desc, inherited))
    IN  IF xs = <<>> THEN [ok |-> TRUE, items |-> <<>>]
        ELSE Then(CollectMediaRecursive(xs[1], section, pack, desc, inherited))

CollectMediaRecursive(node, section, pack, desc, inherited) ==
    LET Both(own, r) == IF ~r.ok THEN Raised ELSE [ok |-> TRUE, items |-> own \o r.items]
        Children(own) ==
            Both(own, CollectEach(Values(node), section, pack, desc,
                                  ChildTitle(node, inherited)))
        Emit(url, title, path) ==
            IF ~path.ok THEN Raised
            ELSE Children(<<Entry(section, pack, desc, title, TypeOf(url), url, path.path)>>)
        Titled(url, title) == Emit(url, title, BuildLocalPath(section, pack, title, url))
        Node(k) == IF k = 0 THEN Children(<<>>)
                   ELSE Titled(Get(node, UrlKeys[k]).s, WalkTitle(node, inherited))
    IN  IF IsDict(node) THEN Node(UrlKeyIndex(node))
        ELSE IF IsList(node) THEN CollectEach(node.xs, section, pack, desc, inherited)
        ELSE [ok |-> TRUE, items |-> <<>>]

(***************************************************************************)
(* _extract_from_pack_detail                                               *)
(***************************************************************************)
\* a play action that is the structured login-required marker
IsLoginMarker(v) == IsDict(v) /\ Get(v, "actionType") = JStr(Str_SHOW_LOGIN_MODAL)

\* a.get("downloadUrl") or a.get("absoluteUrl") or a.get("URL")
FirstUrl(node) == Or(Get(node, "downloadUrl"), Or(Get(node, "absoluteUrl"), Get(node, "URL")))

\* what "for x in v" iterates over when it is handed .get(k, []) of a JSON
\* mapping: the elements of a list, the keys of a mapping, the characters of
\* a string; a number or null is not iterable (TypeError)
Iterable(v) == v.t \in {"list", "dict", "str"}
Elements(v) ==
    CASE v.t = "list" -> v.xs
      [] v.t = "dict" -> [i \in 1..Len(v.kv) |-> JStr(<<v.kv[i][1]>>)]
      [] v.t = "str" -> [i \in 1..Len(v.s) |-> JStr(<<v.s[i]>>)]
      [] OTHER -> <<>>

\* One widget item of the detail page (lines 495-543).  acc is the state of
\* the walk: ok (nothing raised), items, warned, warnings, markers.
DetailItem(itm, acc, section, pack, desc) ==
    LET Add(e) == [acc EXCEPT !.items = Append(@, e)]
        Fail == [acc EXCEPT !.ok = FALSE]
        \* lines 498-513: a play action that is a string
        PlayEntry(info, title, path) ==
            IF ~path.ok THEN Fail
            ELSE Add(Entry(section, pack, desc, title, info.media_type,
                           info.media_url, path.path))
        PlayTitled(info, title) ==
            PlayEntry(info, title, BuildLocalPath(section, pack, title, info.media_url))
        Play(info) ==
            IF ~info.has_url THEN acc
            ELSE PlayTitled(info, IF info.has_title THEN JStr(info.session_title)
                                  ELSE GetD(itm, "title", JStr(Str_Session)))
        \* lines 517-543: the else branch
        UrlEntry(url, title, path) ==
            IF ~path.ok THEN Fail
            ELSE Add(Entry(section, pack, desc, title, TypeOf(url), url, path.path))
        UrlTitled(url, title) ==
            UrlEntry(url, title, BuildLocalPath(section, pack, title, url))
        Walked(r) == IF ~r.ok THEN Fail ELSE [acc EXCEPT !.items = @ \o r.items]
        Direct(url_field) ==
            IF IsStr(url_field)
            THEN UrlTitled(url_field.s, GetD(itm, "title", JStr(Str_Session)))
            ELSE IF Get(itm, "content").t \in {"list", "dict"}
            THEN Walked(CollectMediaRecursive(Get(itm, "content"), section, pack, desc,
                                              Get(itm, "title")))
            ELSE acc
        Met(a) == [a EXCEPT !.markers = @ + 1]
        Branch(pa) ==
            IF Has(itm, "playAction") /\ IsStr(pa) THEN Play(ParseCurefitUrl(pa))
            ELSE IF IsLoginMarker(pa) /\ ~acc.warned
            THEN [acc EXCEPT !.warned = TRUE, !.warnings = @ + 1, !.markers = @ + 1]
            ELSE IF IsLoginMarker(pa) THEN Met(Direct(FirstUrl(itm)))
            ELSE Direct(FirstUrl(itm))
    IN  IF ~IsDict(itm) THEN acc ELSE Branch(Get(itm, "playAction"))

RECURSIVE DetailItems(_, _, _, _, _)
DetailItems(itms, acc, section, pack, desc) ==
    IF itms = <<>> \/ ~acc.ok THEN acc
    ELSE DetailItems(Tail(itms), DetailItem(itms[1], acc, section, pack, desc),
                     section, pack, desc)

RECURSIVE DetailWidgets(_, _, _, _, _)
DetailWidgets(ws, acc, section, pack, desc) ==
    LET Widget(its) ==
            IF ~Iterable(its) THEN [acc EXCEPT !.ok = FALSE]
            ELSE DetailWidgets(Tail(ws),
                     DetailItems(Elements(its), acc, section, pack, desc),
                     section, pack, desc)
    IN  IF ws = <<>> \/ ~acc.ok THEN acc
        ELSE IF ~IsDict(ws[1]) THEN DetailWidgets(Tail(ws), acc, section, pack, desc)
        ELSE Widget(GetD(ws[1], "items", JList(<<>>)))

\* the first dict value of state["cultDIYPack"], JNull when there is none
PackDict(state) ==
    LET First(packs) ==
            IF Has(state, "cultDIYPack") /\ IsDict(packs)
               /\ (\E i \in 1..Len(packs.kv) : IsDict(packs.kv[i][2]))
            THEN packs.kv[CHOOSE i \in 1..Len(packs.kv) :
                     IsDict(packs.kv[i][2]) /\ \A j \in 1..(i - 1) : ~IsDict(packs.kv[j][2])][2]
            ELSE JNull
    IN  First(Get(state, "cultDIYPack"))

\* The try block of _extract_from_pack_detail (lines 471-556).  resp is what
\* the fetch of the page gave:
\*   [kind |-> "exc"]    session.get raised
\*   [kind |-> "http"]   raise_for_status raised
\*   [kind |-> "ok", state |-> s]  s is what _extract_preloaded_state
\*                       returned: a JSON mapping, or JNull for None
\* The result: ok (FALSE when the block raised), items, the login flag, the
\* warnings printed, the markers met, and empty (the block ended at one of
\* its "return []").
PackDetailBody(resp, section, pack, desc, w) ==
    LET none(ok) == [ok |-> ok, items |-> <<>>, warned |-> w, warnings |-> 0,
                     markers |-> 0, empty |-> ok]
        Out(a, r) ==
            [ok |-> a.ok /\ r.ok,
             items |-> IF a.ok /\ r.ok THEN a.items \o r.items ELSE <<>>,
             warned |-> a.warned, warnings |-> a.warnings, markers |-> a.markers,
             empty |-> FALSE]
        \* lines 545-554: the pack's own content
        Content(pack_dict, a) ==
            Out(a, IF a.ok
                   THEN CollectMediaRecursive(Get(pack_dict, "content"),
                                              section, pack, desc, pack)
                   ELSE Raised)
        \* lines 490-543: the product widgets
        Widgets(pack_dict, pw, acc0) ==
            Content(pack_dict,
                    IF ~Iterable(pw) THEN [acc0 EXCEPT !.ok = FALSE]
                    ELSE DetailWidgets(Elements(pw), acc0, section, pack, desc))
        Pack(pack_dict) ==
            IF ~Truthy(pack_dict) THEN none(TRUE)
            ELSE Widgets(pack_dict, GetD(pack_dict, "productWidgets", JList(<<>>)),
                         [ok |-> TRUE, items |-> <<>>, warned |-> w,
                          warnings |-> 0, markers |-> 0])
    IN  IF resp.kind # "ok" THEN none(FALSE)
        ELSE IF ~Truthy(resp.state) THEN none(TRUE)
        ELSE Pack(PackDict(resp.state))

\* a variant of ExceptReturnsEmpty with no except clause: what the block
\* raises leaves _extract_from_pack_detail
ExceptMissing(r) ==
    [ok |-> r.ok, items |-> r.items, warned |-> r.warned, warnings |-> r.warnings,
     markers |-> r.markers, failed |-> ~r.ok \/ r.empty]

\* lines 557-558: "except Exception: return []" around the block
ExceptReturnsEmpty(r) ==
    [ok |-> TRUE, items |-> IF r.ok THEN r.items ELSE <<>>,
     warned |-> r.warned, warnings |-> r.warnings, markers |-> r.markers,
     failed |-> ~r.ok \/ r.empty]

\* _extract_from_pack_detail: ok (it returned), items (what it returned), the
\* login flag, the warnings printed, the markers met, and failed (the fetch or
\* the parsing failed: it returned [] from an except or an early return)
ExtractFromPackDetail(resp, section, pack, desc, w) ==
    ExceptReturnsEmpty(PackDetailBody(resp, section, pack, desc, w))

(***************************************************************************)
(* _extract_media_from_item                                                *)
(***************************************************************************)
\* the comparison without lower(): a variant of IsGeneric
IsGenericCased(title) == StartsWith(title, Str_Session)

\* title.lower().startswith("session")
IsGeneric(title) == StartsWith(Lower(title), Str_session)

\* the position of the entry for url in the dedup table, 0 when it has none
DedupIndex(table, url) ==
    IF \E i \in 1..Len(table) : table[i].cdn_url = url
    THEN CHOOSE i \in 1..Len(table) : table[i].cdn_url = url
    ELSE 0

\* a variant of DedupStep that keeps every entry
DedupStepKeepAll(acc, e) == [acc EXCEPT !.list = Append(@, e)]

\* a variant of DedupStep in which the last entry seen for a URL wins
DedupStepLast(acc, e) ==
    LET At(i) == IF i = 0 THEN [acc EXCEPT !.list = Append(@, e)]
                 ELSE [acc EXCEPT !.list[i] = e]
    IN  At(DedupIndex(acc.list, e.cdn_url))

\* One pass of the loop of lines 394-405 over entry e.  A title that is no
\* string has no lower() (AttributeError).
DedupStep(acc, e) ==
    LET At(i) ==
            IF i = 0 THEN [acc EXCEPT !.list = Append(@, e)]
            ELSE IF ~IsStr(acc.list[i].session_title) \/ ~IsStr(e.session_title)
            THEN [acc EXCEPT !.ok = FALSE]
            ELSE IF IsGeneric(acc.list[i].session_title.s) /\ ~IsGeneric(e.session_title.s)
            THEN [acc EXCEPT !.list[i] = e]
            ELSE acc
    IN  At(DedupIndex(acc.list, e.cdn_url))

RECURSIVE DedupFrom(_, _)
DedupFrom(acc, entries) ==
    IF entries = <<>> \/ ~acc.ok THEN acc
    ELSE DedupFrom(DedupStep(acc, entries[1]), Tail(entries))

\* lines 393-407: list(dedup.values()), or ok = FALSE when it raised
Dedup(entries) == DedupFrom([ok |-> TRUE, list |-> <<>>], entries)

\* f"Session {idx+1}" for the element at 1-based position i
SessionN(i) == Str_SessionSp \o <<Digits[i + 1]>>

\* One element of a content list, at 1-based position i (lines 288-317).
\* acc: ok, sources (<<play_url, default_title, step>>), items.
ContentElem(content, i, acc, section, pack, desc) ==
    LET Add(url, title, path) ==
            IF ~path.ok THEN [acc EXCEPT !.ok = FALSE]
            ELSE [acc EXCEPT !.items = Append(@,
                      Entry(section, pack, desc, title, TypeOf(url), url, path.path))]
        Titled(url, title) == Add(url, title, BuildLocalPath(section, pack, title, url))
        \* media_url.endswith on a value that is no string: AttributeError
        Direct(media_url) ==
            IF ~IsStr(media_url) THEN [acc EXCEPT !.ok = FALSE]
            ELSE Titled(media_url.s, GetD(content, "title", JStr(SessionN(i))))
    IN  IF IsDict(content) /\ Has(content, "playAction")
        THEN [acc EXCEPT !.sources = Append(@,
                  <<Get(content, "playAction"),
                    GetD(content, "title", JStr(SessionN(i))), 2>>)]
        ELSE IF IsDict(content) /\ Truthy(FirstUrl(content))
        THEN Direct(FirstUrl(content))
        ELSE acc

RECURSIVE ContentList(_, _, _, _, _, _)
ContentList(xs, i, acc, section, pack, desc) ==
    IF i > Len(xs) \/ ~acc.ok THEN acc
    ELSE ContentList(xs, i + 1, ContentElem(xs[i], i, acc, section, pack, desc),
                     section, pack, desc)

\* lines 318-339: content is a single mapping
ContentDict(content, acc, section, pack, desc) ==
    LET Add(url, title, path) ==
            IF ~path.ok THEN [acc EXCEPT !.ok = FALSE]
            ELSE [acc EXCEPT !.items = Append(@,
                      Entry(section, pack, desc, title, TypeOf(url), url, path.path))]
        Titled(url, title) == Add(url, title, BuildLocalPath(section, pack, title, url))
        Direct(media_url) ==
            IF ~IsStr(media_url) THEN acc
            ELSE Titled(media_url.s, GetD(content, "title", JStr(Str_Session)))
    IN  Direct(FirstUrl(content))

\* lines 349-359
LinkPath(item) ==
    Or(Get(item, "link"),
       Or(Get(item, "action"),
          Or(IF IsDict(Get(item, "moreAction")) THEN Get(Get(item, "moreAction"), "url")
             ELSE JNull,
             Or(Get(item, "deeplink"), Get(item, "slug")))))

\* whether the item sends _extract_media_from_item to its detail page
FollowsLink(item) ==
    LET Rel(l) == IsStr(l) /\ StartsWith(l.s, <<"/">>)
    IN  Rel(LinkPath(item))

\* a variant of LoginWarning that does not look at the flag
LoginWarningAlways(acc) ==
    [acc EXCEPT !.warned = TRUE, !.warnings = @ + 1, !.markers = @ + 1]

\* lines 369-371: a login marker in the loop over the sources; the warning is
\* printed unless the flag is set
LoginWarning(acc) ==
    IF ~acc.warned
    THEN [acc EXCEPT !.warned = TRUE, !.warnings = @ + 1, !.markers = @ + 1]
    ELSE [acc EXCEPT !.markers = @ + 1]

\* One pass of the loop of lines 365-385 over src = <<play_url, default_title, step>>.
\* acc: ok, items, steps, warned, warnings, markers.
SourceStep(src, acc, section, pack, desc) ==
    LET Add(info, title, path) ==
            IF ~path.ok THEN [acc EXCEPT !.ok = FALSE]
            ELSE [acc EXCEPT !.items = Append(@,
                      Entry(section, pack, desc, title, info.media_type,
                            info.media_url, path.path)),
                  !.steps = Append(@, src[3])]
        Titled(info, title) ==
            Add(info, title, BuildLocalPath(section, pack, title, info.media_url))
        Decoded(info) ==
            IF ~info.has_url
            THEN IF IsLoginMarker(src[1])
                 THEN LoginWarning(acc)
                 ELSE acc
            ELSE Titled(info, IF info.has_title THEN JStr(info.session_title) ELSE src[2])
    IN  Decoded(ParseCurefitUrl(src[1]))

RECURSIVE SourceLoop(_, _, _, _, _)
SourceLoop(srcs, acc, section, pack, desc) ==
    IF srcs = <<>> \/ ~acc.ok THEN acc
    ELSE SourceLoop(Tail(srcs), SourceStep(srcs[1], acc, section, pack, desc),
                    section, pack, desc)

\* lines 281-284
TopSources(item) ==
    (IF Has(item, "packIntroAction")
     THEN << <<Get(item, "packIntroAction"), JStr(Str_Intro), 1>> >> ELSE <<>>)
    \o (IF Has(item, "playAction")
        THEN << <<Get(item, "playAction"), JStr(Str_Main), 1>> >> ELSE <<>>)

\* The candidate list media_items of _extract_media_from_item as it stands
\* when the dedup loop starts (lines 279-385), with, per candidate, the
\* resolution step that found it (steps), or ok = FALSE when a step raised.
\* item is a JSON mapping; resp is what the fetch of its detail page gives;
\* w is _warned_login_required at the call.
Candidates(item, section, pack, desc, resp, w) ==
    LET Tags(n, k) == [i \in 1..n |-> k]
        Out(b, fetched, extra) ==
            [ok |-> b.ok, items |-> b.items, steps |-> b.steps,
             warned |-> b.warned, warnings |-> b.warnings, markers |-> b.markers,
             fetched |-> fetched, extra |-> extra.items, failed |-> extra.failed]
        \* lines 365-385: the action references collected first are decoded last
        Sources(a, walk, fetched, extra) ==
            Out(SourceLoop(a.sources,
                           [ok |-> a.ok /\ walk.ok /\ extra.ok,
                            items |-> a.items \o walk.items \o extra.items,
                            steps |-> Tags(Len(a.items),
                                           IF IsList(Get(item, "content")) THEN 2 ELSE 3)
                                      \o Tags(Len(walk.items), 4)
                                      \o Tags(Len(extra.items), 5),
                            warned |-> extra.warned, warnings |-> extra.warnings,
                            markers |-> extra.markers],
                           section, pack, desc),
                fetched, extra)
        \* lines 349-363: the detail page
        Detail(a, walk, fetched) ==
            Sources(a, walk, fetched,
                    IF fetched THEN ExtractFromPackDetail(resp, section, pack, desc, w)
                    ELSE [ok |-> TRUE, items |-> <<>>, warned |-> w, warnings |-> 0,
                          markers |-> 0, failed |-> FALSE])
        Walked(a, walk) == Detail(a, walk, a.ok /\ walk.ok /\ FollowsLink(item))
        \* lines 342-344: the recursive walk over the content field
        Walk(a) ==
            Walked(a, IF a.ok
                      THEN CollectMediaRecursive(Get(item, "content"), section, pack,
                                                 desc, JNull)
                      ELSE Raised)
        \* lines 286-339: the content field, a list or a mapping
        Content(content_field, a0) ==
            Walk(IF IsList(content_field)
                 THEN ContentList(content_field.xs, 1, a0, section, pack, desc)
                 ELSE IF IsDict(content_field)
                 THEN ContentDict(content_field, a0, section, pack, desc)
                 ELSE a0)
    IN  Content(Get(item, "content"),
                [ok |-> TRUE, sources |-> TopSources(item), items |-> <<>>])

\* _extract_media_from_item: ok (it returned), list (what it returned),
\* cand and steps (the candidate list before dedup), the login flag after the
\* call, the warnings it printed and the login markers it met, whether it
\* fetched the detail page, what that page gave and whether that failed.
ExtractMediaFromItem(item, section, pack, desc, resp, w) ==
    LET Out(c, d) ==
            [ok |-> d.ok, list |-> IF d.ok THEN d.list ELSE <<>>,
             cand |-> c.items, steps |-> c.steps,
             warned |-> c.warned, warnings |-> c.warnings, markers |-> c.markers,
             fetched |-> c.fetched, extra |-> c.extra, failed |-> c.failed]
        Finish(c) == Out(c, IF c.ok THEN Dedup(c.items) ELSE [ok |-> FALSE, list |-> <<>>])
    IN  Finish(Candidates(item, section, pack, desc, resp, w))

(***************************************************************************)
(* The inputs: pack items and detail pages                                 *)
(***************************************************************************)
U_a == <<"a",".","m","p","3">>
U_b == <<"b",".","m","p","4">>
T_Deep == <<"D","e","e","p"," ","R","e","l","a","x","a","t","i","o","n">>
T_Calm == <<"C","a","l","m">>
T_SESSION2 == <<"S","E","S","S","I","O","N"," ","2">>
T_Outer == <<"O","u","t","e","r">>
T_Inner == <<"I","n","n","e","r">>
P_Yoga == <<"Y","o","g","a"," ","N","i","d","r","a">>
S_Sleep == <<"S","l","e","e","p">>
S_Focus == <<"F","o","c","u","s">>
L_pack == <<"/","p","a","c","k","/","1">>
L_abs == <<"h","t","t","p","s",":","/","/","x","/","p">>

\* curefit://x?<key>=<url>
Curefit(key, url) == Str_curefit \o <<"x", "?">> \o key \o <<"=">> \o url
\* ...&title=<title>
WithTitle(uri, title) == uri \o <<"&">> \o Str_title \o <<"=">> \o title

LoginMarker == JDict(<< <<"actionType", JStr(Str_SHOW_LOGIN_MODAL)>> >>)
CfA == JStr(Curefit(Str_absoluteAudioUrl, U_a))
CfACalm == JStr(WithTitle(Curefit(Str_absoluteAudioUrl, U_a), T_Calm))
CfBSession == JStr(WithTitle(Curefit(Str_absoluteVideoUrl, U_b), <<"S","e","s","s","i","o","n","%","2","0","9">>))

Absent == [t |-> "absent"]

\* a JSON mapping of the given <<key, value>> pairs, those with value Absent left out
RECURSIVE Present(_)
Present(kv) ==
    IF kv = <<>> THEN <<>>
    ELSE (IF kv[1][2] = Absent THEN <<>> ELSE <<kv[1]>>) \o Present(Tail(kv))
Obj(kv) == JDict(Present(kv))

N_A == Obj(<< <<"downloadUrl", JStr(U_a)>> >>)
N_ADeep == Obj(<< <<"title", JStr(T_Deep)>>, <<"downloadUrl", JStr(U_a)>> >>)
N_ACalm == Obj(<< <<"title", JStr(T_Calm)>>, <<"absoluteUrl", JStr(U_a)>> >>)
N_ASESSION == Obj(<< <<"title", JStr(T_SESSION2)>>, <<"downloadUrl", JStr(U_a)>> >>)
N_BInner == Obj(<< <<"subTitle", JStr(T_Inner)>>, <<"URL", JStr(U_b)>> >>)
N_Play == Obj(<< <<"title", JStr(T_Deep)>>, <<"playAction", CfACalm>> >>)
N_Marker == Obj(<< <<"playAction", LoginMarker>>, <<"downloadUrl", JStr(U_b)>> >>)
N_BadUrl == Obj(<< <<"downloadUrl", JInt(5)>> >>)
N_NullTitle == Obj(<< <<"title", JNull>>, <<"downloadUrl", JStr(U_a)>> >>)
N_Nest == Obj(<< <<"title", JStr(T_Outer)>>, <<"content", JList(<<N_A>>)>> >>)
N_EmptyDl == Obj(<< <<"downloadUrl", JStr(<<>>)>>, <<"absoluteUrl", JStr(U_b)>> >>)

\* the elements of the content lists
Nodes == {N_A, N_ADeep, N_ACalm, N_ASESSION, N_BInner, N_Play, N_Marker}

MaxContentLen == 2
MaxWidgetItems == 2
MaxCalls == 2

\* the sequences over S of length 1..n
SeqsUpTo(S, n) == UNION {[1..k -> S] : k \in 1..n}

ContentFields ==
    {Absent, JNull, N_A, N_ADeep, N_Nest, N_EmptyDl,
     JList(<<N_BadUrl>>), JList(<<N_NullTitle>>), JList(<<N_Nest>>), JList(<<N_EmptyDl>>)}
    \cup {JList(xs) : xs \in SeqsUpTo(Nodes, MaxContentLen)}

PackItem(title, intro, play, content, link) ==
    Obj(<< <<"title", title>>, <<"description", JStr(<<>>)>>,
           <<"packIntroAction", intro>>, <<"playAction", play>>,
           <<"content", content>>, <<"link", link>> >>)

\* pack items with no detail page
PlainItems ==
    {PackItem(JStr(P_Yoga), intro, play, content, link) :
        intro \in {Absent, LoginMarker},
        play \in {Absent, CfA, CfACalm, LoginMarker},
        content \in ContentFields,
        link \in {Absent}}
    \cup {PackItem(JStr(P_Yoga), intro, CfBSession, content, Absent) :
             intro \in {CfA, CfACalm}, content \in {Absent, JList(<<N_A>>), JList(<<N_BInner>>)}}
    \cup {PackItem(title, Absent, CfA, JList(<<N_ADeep>>), JStr(L_abs)) :
             title \in {Absent, JNull, JStr(P_Yoga)}}

\* pack items that link to a detail page
LinkedItems ==
    {PackItem(JStr(P_Yoga), Absent, play, content, JStr(L_pack)) :
        play \in {Absent, CfA, LoginMarker},
        content \in {Absent, JList(<<N_A>>), JList(<<N_BadUrl>>)}}

\* widget items of a detail page
D_Play == Obj(<< <<"title", JStr(T_Deep)>>, <<"playAction", CfACalm>> >>)
D_Marker == Obj(<< <<"playAction", LoginMarker>>, <<"downloadUrl", JStr(U_b)>> >>)
D_Url == Obj(<< <<"title", JStr(T_Deep)>>, <<"downloadUrl", JStr(U_a)>> >>)
D_Content == Obj(<< <<"title", JStr(T_Outer)>>, <<"content", JList(<<N_BInner>>)>> >>)
D_BadTitle == Obj(<< <<"title", JInt(5)>>, <<"downloadUrl", JStr(U_a)>> >>)

DetailItemSet == {D_Play, D_Marker, D_Url, D_Content, D_BadTitle}

\* the state of a detail page whose pack has one widget with the items its
\* and the content field content
DetailState(its, content) ==
    JDict(<< <<"cultDIYPack",
               JDict(<< <<"1", Obj(<< <<"productWidgets",
                                        JList(<< JStr(<<"x">>),
                                                 Obj(<< <<"items", JList(its)>> >>) >>)>>,
                                      <<"content", content>> >>)>> >>)>> >>)

DetailStates ==
    {DetailState(its, content) :
        its \in SeqsUpTo(DetailItemSet, MaxWidgetItems), content \in {Absent, JList(<<N_A>>)}}
    \cup {JDict(<< <<"cultDIYPack", JDict(<< <<"1", JNull>> >>)>> >>),
          JDict(<< <<"other", JNull>> >>),
          JDict(<< <<"cultDIYPack",
                     JDict(<< <<"1", Obj(<< <<"productWidgets", JNull>>,
                                            <<"content", JList(<<N_A>>)>> >>)>> >>)>> >>)}

FailedResps == {[kind |-> "exc"], [kind |-> "http"], [kind |-> "ok", state |-> JNull]}
Resps == FailedResps \cup {[kind |-> "ok", state |-> s] : s \in DetailStates}

\* no detail page is fetched
NoResp == [kind |-> "none"]

(***************************************************************************)
(* The calls of _extract_media_from_item on one crawler                    *)
(***************************************************************************)
NoCall == [made |-> FALSE]
NoWeb == [pages |-> <<>>, detail |-> NoResp]
NoFile == [st |-> "missing"]
NoTodo == [ws |-> <<>>, its |-> <<>>]
NoDl == [pc |-> "idle"]
NoFcall == [made |-> FALSE]

\* crawl() calls _extract_media_from_item(item, sec["name"], pack_title,
\* pack_desc) with the item's title and description (lines 584-586)
PackTitle(item) == GetD(item, "title", JStr(Str_UnknownPack))
PackDesc(item) == GetD(item, "description", JStr(<<>>))

InitItem ==
    /\ warned = FALSE
    /\ warnings = 0
    /\ marker_met = FALSE
    /\ call = NoCall
    /\ ncalls = 0
    /\ web = NoWeb
    /\ sections = <<>>
    /\ media_items = <<>>
    /\ by_section = <<>>
    /\ pc = "idle"
    /\ idx = 1
    /\ todo = NoTodo
    /\ runs = 0
    /\ run1 = <<>>
    /\ files = [all |-> NoFile, by |-> NoFile]
    /\ catalogs = {[all |-> NoFile, by |-> NoFile]}
    /\ seen = [all |-> NoFile, by |-> NoFile]
    /\ dl = NoDl
    /\ fcall = NoFcall

crawlVars == <<web, sections, media_items, by_section, pc, idx, todo, runs, run1,
               files, catalogs, seen, dl, fcall>>

\* one call of _extract_media_from_item
ExtractCall(item, resp) ==
    LET Done(r) ==
            /\ call' = [made |-> TRUE, item |-> item, resp |-> resp, w0 |-> warned, r |-> r]
            /\ warned' = r.warned
            /\ warnings' = warnings + r.warnings
            /\ marker_met' = (marker_met \/ r.markers > 0)
    IN  /\ call = NoCall
        /\ ncalls < MaxCalls
        /\ Done(ExtractMediaFromItem(item, JStr(S_Sleep), PackTitle(item), PackDesc(item),
                                     resp, warned))
        /\ ncalls' = ncalls + 1
        /\ UNCHANGED crawlVars

\* the call has returned (or raised) and its record is dropped
Return ==
    /\ call # NoCall
    /\ call' = NoCall
    /\ UNCHANGED <<warned, warnings, marker_met, ncalls>>
    /\ UNCHANGED crawlVars

NextItem ==
    \/ \E item \in PlainItems : ExtractCall(item, NoResp)
    \/ \E item \in LinkedItems, resp \in Resps : ExtractCall(item, resp)
    \/ Return

SpecItem == InitItem /\ [][NextItem]_vars

(***************************************************************************)
(* Properties of _extract_media_from_item (under SpecItem)                 *)
(***************************************************************************)
\* the URLs of the entries of a list
Urls(list) == {list[i].cdn_url : i \in 1..Len(list)}

\* the entries of a list that carry the URL u, in the list's order
GroupOf(list, u) == SelectSeq(list, LAMBDA e : e.cdn_url = u)

\* the orders in which the entries of g can be appended
Orders(g) == {[i \in 1..Len(g) |-> g[f[i]]] : f \in Permutations(1..Len(g))}

\* an entry whose title starts with the placeholder "session", whatever the case
GenericTitled(e) ==
    /\ IsStr(e.session_title)
    /\ Len(e.session_title.s) >= 7
    /\ Lower(SubSeq(e.session_title.s, 1, 7)) = <<"s","e","s","s","i","o","n">>

\* the first entry of g that is not generic-titled, g not being all generic
FirstDescriptive(g) ==
    g[CHOOSE i \in 1..Len(g) :
        ~GenericTitled(g[i]) /\ \A j \in 1..(i - 1) : GenericTitled(g[j])]

\* the call of _extract_media_from_item at hand has returned a list
Returned == call.made /\ call.r.ok

\* C1: whenever _extract_media_from_item returns, no two entries of the
\* returned list share a cdn_url, and every cdn_url of a candidate found by
\* any step is the cdn_url of exactly one returned entry.
C1_OneEntryPerUrl ==
    Returned =>
        /\ Urls(call.r.list) = Urls(call.r.cand)
        /\ \A u \in Urls(call.r.cand) : Len(GroupOf(call.r.list, u)) = 1

\* a call returned two entries after finding one URL twice and another URL
C1_Witness ==
    /\ Returned
    /\ Len(call.r.list) = 2
    /\ \E u \in Urls(call.r.cand) : Len(GroupOf(call.r.cand, u)) >= 2

\* C2: among the candidates sharing a URL, the returned entry is the
\* first-seen one, unless the first-seen one is generic-titled ("session",
\* any case) and a later one is not: then it is the first later one that is
\* not generic-titled, and nothing replaces that one.
C2_TieBreak ==
    Returned =>
        \A u \in Urls(call.r.cand) :
            LET g == GroupOf(call.r.cand, u)
            IN  GroupOf(call.r.list, u) =
                    << IF GenericTitled(g[1]) /\ \E i \in 1..Len(g) : ~GenericTitled(g[i])
                       THEN FirstDescriptive(g)
                       ELSE g[1] >>

\* a generic-titled first-seen candidate was replaced by a later descriptive
\* one, which a still later, different descriptive one did not replace
C2_Witness ==
    /\ Returned
    /\ \E u \in Urls(call.r.cand) :
           LET g == GroupOf(call.r.cand, u)
           IN  /\ Len(g) >= 3
               /\ GenericTitled(g[1])
               /\ ~GenericTitled(g[2])
               /\ \E i \in 3..Len(g) : ~GenericTitled(g[i]) /\ g[i] # g[2]
               /\ GroupOf(call.r.list, u) = <<g[2]>>

\* a returned list where the case of the placeholder matters: an upper-case
\* "SESSION ..." candidate came first and a descriptive one replaced it
C2_WitnessCase ==
    /\ Returned
    /\ \E u \in Urls(call.r.cand) :
           LET g == GroupOf(call.r.cand, u)
           IN  /\ Len(g) >= 2
               /\ GenericTitled(g[1])
               /\ ~StartsWith(g[1].session_title.s, Str_Session)
               /\ ~GenericTitled(g[2])
               /\ GroupOf(call.r.list, u) = <<g[2]>>

\* C3 as stated: for the candidates sharing a URL, every order of appending
\* them gives the same resolved entry.
C3_OrderIndependent ==
    Returned =>
        \A u \in Urls(call.r.cand) :
            \A p \in Orders(GroupOf(call.r.cand, u)) :
                Dedup(p) = Dedup(GroupOf(call.r.cand, u))

\* C3, amended: when exactly one distinct reference among the candidates
\* sharing a URL is not generic-titled, every order of appending them
\* resolves to that reference.
C3_OrderIndependentOneDescriptive ==
    Returned =>
        \A u \in Urls(call.r.cand) :
            LET g == GroupOf(call.r.cand, u)
                D == {g[i] : i \in {j \in 1..Len(g) : ~GenericTitled(g[j])}}
            IN  Cardinality(D) = 1 =>
                    \A p \in Orders(g) :
                        Dedup(p) = [ok |-> TRUE, list |-> <<CHOOSE d \in D : TRUE>>]

\* a generic-titled candidate and a descriptive one share a URL, the generic
\* one found first
C3_Witness ==
    /\ Returned
    /\ \E u \in Urls(call.r.cand) :
           LET g == GroupOf(call.r.cand, u)
               D == {g[i] : i \in {j \in 1..Len(g) : ~GenericTitled(g[j])}}
           IN  /\ Cardinality(D) = 1
               /\ GenericTitled(g[1])
               /\ GroupOf(call.r.list, u) = <<CHOOSE d \in D : TRUE>>

\* C4 as stated: the candidates of the intro/play actions (step 1) come
\* before those of the content field (steps 2-3), which come before those of
\* the recursive walk (step 4), which come before those of the detail page
\* (step 5).
C4_StepsInOrder ==
    call.made =>
        \A i, j \in 1..Len(call.r.steps) : i < j => call.r.steps[i] <= call.r.steps[j]

\* C5: over all the calls made on one crawler the login warning is printed
\* exactly once if a login marker was met and not at all otherwise, and the
\* flag, once set, stays set.
C5_WarnedOnce ==
    /\ warnings = (IF marker_met THEN 1 ELSE 0)
    /\ warned = marker_met
    /\ call.made /\ call.w0 => call.r.warned

\* a call met a login marker on a crawler that had already warned
C5_Witness ==
    /\ call.made
    /\ call.w0
    /\ call.r.markers > 0
    /\ warnings = 1

\* the widget items of the detail page of the call at hand are all login markers
OnlyMarkerWidgetItems ==
    /\ call.r.fetched
    /\ \E its \in SeqsUpTo({D_Marker}, MaxWidgetItems) :
           call.resp = [kind |-> "ok", state |-> DetailState(its, Absent)]

\* C6 as stated: a pack item whose playAction is a login marker yields no
\* reference, and a detail page whose widget items all have a login marker as
\* playAction yields none, whether or not the warning was printed before.
C6_MarkerYieldsNothing ==
    call.made =>
        /\ IsLoginMarker(Get(call.item, "playAction")) => call.r.list = <<>>
        /\ OnlyMarkerWidgetItems => call.r.extra = <<>>

\* the same pack item without its link
WithoutLink(item) == JDict(SelectSeq(item.kv, LAMBDA kv : kv[1] # "link"))

\* C8: when the fetch of the detail page or its parsing fails,
\* _extract_from_pack_detail returns an empty list, and
\* _extract_media_from_item returns (or raises) what it would without the
\* link.
C8_DetailFailureAbsorbed ==
    (call.made /\ call.r.fetched /\ call.r.failed) =>
        /\ call.r.extra = <<>>
        /\ LET Same(o) == /\ call.r.ok = o.ok
                          /\ call.r.list = o.list
           IN  Same(ExtractMediaFromItem(WithoutLink(call.item), JStr(S_Sleep),
                                         PackTitle(call.item), PackDesc(call.item),
                                         NoResp, call.w0))

\* the fetch of the detail page raised and the call returned the one
\* reference its content field holds
C8_Witness ==
    /\ Returned
    /\ call.r.fetched
    /\ call.resp = [kind |-> "exc"]
    /\ Len(call.r.list) = 1

\* the parsing of the detail page raised and the item had nothing else
C8_WitnessParse ==
    /\ Returned
    /\ call.r.fetched
    /\ call.resp.kind = "ok"
    /\ call.r.failed
    /\ Truthy(call.resp.state)
    /\ PackDict(call.resp.state) # JNull
    /\ call.r.list = <<>>

(***************************************************************************)
(* crawl()                                                                 *)
(***************************************************************************)
MaxPageItems == 2
MaxRuns == 2

I_Deep == PackItem(JStr(P_Yoga), Absent, Absent, JList(<<N_ADeep>>), Absent)
I_Play == PackItem(JStr(T_Calm), Absent, CfACalm, Absent, Absent)
I_Linked == PackItem(JStr(P_Yoga), Absent, Absent, Absent, JStr(L_pack))
I_BadUrl == PackItem(JStr(P_Yoga), Absent, Absent, JList(<<N_BadUrl>>), Absent)

CrawlItems == {I_Deep, I_Play, I_Linked}

\* the embedded state of a section page with the given widgets
Browse(widgets) ==
    JDict(<< <<"cultDIYPackBrowse", JDict(<< <<"widgets", JList(widgets)>> >>)>> >>)
Widget(its) == JDict(<< <<"items", JList(its)>> >>)

\* what the fetch of a section page gives, as for a detail page
Pages ==
    {[kind |-> "exc"], [kind |-> "ok", state |-> JNull],
     [kind |-> "ok", state |-> Browse(<<JStr(<<"x">>)>>)],
     [kind |-> "ok", state |-> Browse(<<Widget(<<I_BadUrl>>)>>)]}
    \cup {[kind |-> "ok", state |-> Browse(<<Widget(its)>>)] :
             its \in SeqsUpTo(CrawlItems, MaxPageItems)}

SectionNames == <<JStr(S_Sleep), JStr(S_Focus)>>

Webs ==
    {[pages |-> ps, detail |-> d] :
        ps \in [1..Len(SectionNames) -> Pages],
        d \in {[kind |-> "exc"],
               [kind |-> "ok", state |-> DetailState(<<D_Marker, D_Url>>, Absent)]}}

Init ==
    /\ warned = FALSE
    /\ warnings = 0
    /\ marker_met = FALSE
    /\ call = NoCall
    /\ ncalls = 0
    /\ web \in Webs
    /\ sections = <<>>
    /\ media_items = <<>>
    /\ by_section = <<>>
    /\ pc = "idle"
    /\ idx = 1
    /\ todo = NoTodo
    /\ runs = 0
    /\ run1 = <<>>
    /\ files = [all |-> NoFile, by |-> NoFile]
    /\ catalogs = {[all |-> NoFile, by |-> NoFile]}
    /\ seen = [all |-> NoFile, by |-> NoFile]
    /\ dl = NoDl
    /\ fcall = NoFcall

\* self.media_by_section[name], which creates the key (a defaultdict)
Touch(bs, name) ==
    IF \E i \in 1..Len(bs) : bs[i][1] = name THEN bs ELSE Append(bs, <<name, <<>>>>)

\* self.media_by_section[name].extend(list)
Extend(bs, name, list) ==
    LET In(b) == [i \in 1..Len(b) |-> IF b[i][1] = name THEN <<name, b[i][2] \o list>>
                                      ELSE b[i]]
    IN  In(Touch(bs, name))

\* line 581: state["cultDIYPackBrowse"].get("widgets", []), the widgets the
\* loop of line 582 will walk; ok is FALSE where the code raises
WidgetsOf(state) ==
    LET Widgets(ws) ==
            IF ~Iterable(ws) THEN [ok |-> FALSE, ws |-> <<>>]
            ELSE [ok |-> TRUE, ws |-> Elements(ws)]
        Browsed(b) ==
            \* .get on a value that is no mapping: AttributeError
            IF ~IsDict(b) THEN [ok |-> FALSE, ws |-> <<>>]
            ELSE Widgets(GetD(b, "widgets", JList(<<>>)))
    IN  Browsed(Get(state, "cultDIYPackBrowse"))

\* crawl() is called: lines 565-567 (discover_sections fills self.sections)
CrawlStart ==
    /\ pc \in {"idle", "done"}
    /\ runs < MaxRuns
    /\ sections' = IF sections = <<>> THEN SectionNames ELSE sections
    /\ idx' = 1
    /\ pc' = "loop"
    /\ UNCHANGED <<dl, fcall, warned, warnings, marker_met, call, ncalls, web, media_items,
                   by_section, runs, run1, files, catalogs, seen, todo>>

\* lines 568-581: the next section's page is fetched; a failed fetch or a
\* page without the pack data skips the section
CrawlSection ==
    LET Walk(r) ==
            /\ pc' = IF r.ok THEN "widgets" ELSE "raised"
            /\ todo' = [ws |-> r.ws, its |-> <<>>]
            /\ idx' = idx
        Page(page) ==
            IF \/ page.kind # "ok"
               \/ ~Truthy(page.state)
               \/ ~Has(page.state, "cultDIYPackBrowse")
            THEN idx' = idx + 1 /\ UNCHANGED <<pc, todo>>
            ELSE Walk(WidgetsOf(page.state))
    IN  /\ pc = "loop"
        /\ idx <= Len(sections)
        /\ Page(web.pages[idx])
        /\ UNCHANGED <<dl, fcall, warned, warnings, marker_met, call, ncalls, web, sections,
                       media_items, by_section, runs, run1, files, catalogs, seen>>

\* lines 582-583: the next widget and its items; after the last widget,
\* lines 591-592 (the count logged, which creates the section's key)
CrawlWidget ==
    LET Items(its) ==
            IF ~Iterable(its) THEN pc' = "raised" /\ UNCHANGED todo
            ELSE /\ todo' = [ws |-> Tail(todo.ws), its |-> Elements(its)]
                 /\ UNCHANGED pc
    IN  /\ pc = "widgets"
        /\ todo.its = <<>>
        /\ IF todo.ws = <<>>
           THEN /\ by_section' = Touch(by_section, sections[idx])
                /\ idx' = idx + 1
                /\ pc' = "loop"
                /\ UNCHANGED todo
           ELSE /\ UNCHANGED <<by_section, idx>>
                \* w.get on a value that is no mapping: AttributeError
                /\ IF ~IsDict(todo.ws[1]) THEN pc' = "raised" /\ UNCHANGED todo
                   ELSE Items(GetD(todo.ws[1], "items", JList(<<>>)))
        /\ UNCHANGED <<dl, fcall, warned, warnings, marker_met, call, ncalls, web, sections,
                       media_items, runs, run1, files, catalogs, seen>>

\* lines 584-590: one item of the widget
CrawlItem ==
    LET Got(r) ==
            /\ warned' = r.warned
            /\ warnings' = warnings + r.warnings
            /\ marker_met' = (marker_met \/ r.markers > 0)
            /\ pc' = IF r.ok THEN "widgets" ELSE "raised"
            /\ media_items' = IF r.list # <<>> THEN media_items \o r.list
                              ELSE media_items
            /\ by_section' = IF r.list # <<>>
                             THEN Extend(by_section, sections[idx], r.list)
                             ELSE by_section
        Item(item) ==
            \* item.get on a value that is no mapping: AttributeError
            IF ~IsDict(item)
            THEN /\ pc' = "raised"
                 /\ UNCHANGED <<warned, warnings, marker_met, media_items, by_section>>
            ELSE Got(ExtractMediaFromItem(item, sections[idx], PackTitle(item),
                                          PackDesc(item), web.detail, warned))
    IN  /\ pc = "widgets"
        /\ todo.its # <<>>
        /\ Item(todo.its[1])
        /\ todo' = [todo EXCEPT !.its = Tail(@)]
        /\ UNCHANGED <<dl, fcall, call, ncalls, web, sections, idx, runs, run1, files,
                       catalogs, seen>>

\* a document of data_root: missing, opened for writing and not yet complete
\* ("trunc"), or complete with the value v
FullFile(v) == [st |-> "full", v |-> v]
TruncFile == [st |-> "trunc"]

\* lines 593-596: the loop is over; write_text opens all_media.json, which
\* truncates it
OpenAll ==
    /\ pc = "loop"
    /\ idx > Len(sections)
    /\ files' = [files EXCEPT !.all = TruncFile]
    /\ pc' = "write_all"
    /\ UNCHANGED <<dl, fcall, warned, warnings, marker_met, call, ncalls, web, sections,
                   media_items, by_section, idx, todo, runs, run1, catalogs, seen>>

\* line 596: the text of all_media.json is written and the file closed
WriteAll ==
    /\ pc = "write_all"
    /\ files' = [files EXCEPT !.all = FullFile(media_items)]
    /\ pc' = "open_by"
    /\ UNCHANGED <<dl, fcall, warned, warnings, marker_met, call, ncalls, web, sections,
                   media_items, by_section, idx, todo, runs, run1, catalogs, seen>>

\* line 597: write_text opens media_by_section.json
OpenBy ==
    /\ pc = "open_by"
    /\ files' = [files EXCEPT !.by = TruncFile]
    /\ pc' = "write_by"
    /\ UNCHANGED <<dl, fcall, warned, warnings, marker_met, call, ncalls, web, sections,
                   media_items, by_section, idx, todo, runs, run1, catalogs, seen>>

\* lines 597-599: the text of media_by_section.json is written; crawl() returns
WriteBy ==
    /\ pc = "write_by"
    /\ files' = [files EXCEPT !.by = FullFile(by_section)]
    /\ pc' = "done"
    /\ runs' = runs + 1
    /\ run1' = IF runs = 0 THEN media_items ELSE run1
    /\ catalogs' = catalogs \cup {files'}
    /\ UNCHANGED <<dl, fcall, warned, warnings, marker_met, call, ncalls, web, sections,
                   media_items, by_section, idx, todo, seen>>

\* a concurrent consumer reads the two documents
Reader ==
    /\ seen # files
    /\ seen' = files
    /\ UNCHANGED <<dl, fcall, warned, warnings, marker_met, call, ncalls, web, sections,
                   media_items, by_section, pc, idx, todo, runs, run1, files, catalogs>>

Next ==
    \/ CrawlStart
    \/ CrawlSection
    \/ CrawlWidget
    \/ CrawlItem
    \/ OpenAll
    \/ WriteAll
    \/ OpenBy
    \/ WriteBy
    \/ Reader

Spec == Init /\ [][Next]_vars

(***************************************************************************)
(* Properties of crawl() (under Spec)                                      *)
(***************************************************************************)
\* C7 as stated: whatever the pages and their embedded state hold, no
\* exception leaves the loop of crawl() over the sections, so every section
\* is processed.
C7_NoExceptionLeavesLoop == pc # "raised"

\* C9 as stated: when crawl() has returned, a second time included,
\* media_items and all_media.json hold what the first run left, and no two
\* entries share a cdn_url.
C9_CrawlIdempotent ==
    (pc = "done") =>
        /\ media_items = run1
        /\ files.all = FullFile(run1)
        /\ \A i, j \in 1..Len(media_items) :
               media_items[i].cdn_url = media_items[j].cdn_url => i = j

\* C10 as stated: what a concurrent reader reads of the two documents is a
\* catalog crawl() has completely written (or the absence of any), never a
\* document being written and never documents of two different catalogs.
C10_ReaderSeesWholeCatalog == seen \in catalogs

(***************************************************************************)
(* The calls of _parse_curefit_url                                         *)
(***************************************************************************)
MaxParams == 2

U_enc == <<"x","%","2","F","a",".","m","p","3">>

\* the fields name=value of a query
QueryFields ==
    {k \o <<"=">> \o v :
        k \in {Str_absoluteAudioUrl, Str_absoluteVideoUrl, Str_title},
        v \in {<<>>, U_a, U_b, U_enc}}

\* the fields fs joined by "&"
RECURSIVE JoinAmp(_)
JoinAmp(fs) ==
    IF Len(fs) = 1 THEN fs[1] ELSE fs[1] \o <<"&">> \o JoinAmp(Tail(fs))

\* what _parse_curefit_url is handed: curefit:// references, other strings
\* and values that are no strings
ParseInputs ==
    {JStr(Str_curefit \o <<"x", "?">> \o JoinAmp(fs)) :
        fs \in SeqsUpTo(QueryFields, MaxParams)}
    \cup {JStr(Str_curefit \o <<"x">>),
          JStr(<<"h","t","t","p","s",":","/","/","x","?">> \o Str_absoluteAudioUrl
               \o <<"=">> \o U_a),
          JStr(<<"C">> \o Tail(Str_curefit) \o <<"x","?">> \o Str_absoluteAudioUrl
               \o <<"=">> \o U_a),
          JStr(<<>>), JNull, JInt(5), LoginMarker, JList(<<CfA>>)}

\* one call of the static helper _parse_curefit_url
ParseCall(cure_url) ==
    /\ fcall = NoFcall
    /\ fcall' = [made |-> TRUE, fn |-> "_parse_curefit_url", in |-> cure_url,
                 out |-> ParseCurefitUrl(cure_url)]
    /\ UNCHANGED <<warned, warnings, marker_met, call, ncalls, web, sections,
                   media_items, by_section, pc, idx, todo, runs, run1, files, catalogs,
                   seen, dl>>

\* the call of the helper has returned and its record is dropped
FnReturn ==
    /\ fcall # NoFcall
    /\ fcall' = NoFcall
    /\ UNCHANGED <<warned, warnings, marker_met, call, ncalls, web, sections,
                   media_items, by_section, pc, idx, todo, runs, run1, files, catalogs,
                   seen, dl>>

NextParse ==
    \/ \E cure_url \in ParseInputs : ParseCall(cure_url)
    \/ FnReturn

SpecParse == InitItem /\ [][NextParse]_vars

\* the call at hand is one of _parse_curefit_url
Parsed == fcall.made /\ fcall.fn = "_parse_curefit_url"

\* the input of the call at hand is a curefit:// reference
IsCurefitRef == IsStr(fcall.in) /\ StartsWith(fcall.in.s, Str_curefit)

\* the fields of the query of the reference at hand (what follows its first "?")
FieldsOfRef ==
    IF IndexOf(fcall.in.s, "?") = 0 THEN <<>>
    ELSE SplitOn(SubSeq(fcall.in.s, IndexOf(fcall.in.s, "?") + 1, Len(fcall.in.s)), "&")

\* the values, in order, of the fields of fs named k
ValuesOfKey(fs, k) ==
    LET named == SelectSeq(fs, LAMBDA f : StartsWith(f, k \o <<"=">>))
    IN  [i \in 1..Len(named) |-> SubSeq(named[i], Len(k) + 2, Len(named[i]))]

\* the values of ValuesOfKey that are not empty
FilledValuesOfKey(fs, k) == SelectSeq(ValuesOfKey(fs, k), LAMBDA v : v # <<>>)

MaxChildren == 2

\* The deepest nesting of calls the interpreter allows before it raises
\* RecursionError, scaled down; the walk makes one call per value, scalars
\* included.
RecursionLimit == 8

\* the number of nested calls the walk over node makes
RECURSIVE Depth(_)
Depth(node) ==
    LET Max(S) == IF S = {} THEN 0 ELSE CHOOSE m \in S : \A n \in S : n <= m
    IN  IF IsDict(node) THEN 1 + Max({Depth(node.kv[i][2]) : i \in 1..Len(node.kv)})
        ELSE IF IsList(node) THEN 1 + Max({Depth(node.xs[i]) : i \in 1..Len(node.xs)})
        ELSE 1

\* _collect_media_recursive called from outside: the walk, which raises
\* (RecursionError) when it nests deeper than the interpreter allows
CollectWithinLimit(node, section, pack, desc, inherited) ==
    IF Depth(node) > RecursionLimit THEN Raised
    ELSE CollectMediaRecursive(node, section, pack, desc, inherited)

N_EmptyTitle ==
    Obj(<< <<"title", JStr(<<>>)>>, <<"subTitle", JStr(T_Inner)>>, <<"downloadUrl", JStr(U_a)>> >>)

\* the nodes at the bottom of the trees walked
WalkLeaves == {N_A, N_ADeep, N_BInner, N_EmptyTitle, N_BadUrl}

\* a mapping with the given title and the given nodes in its content list
Nest(title, xs) == Obj(<< <<"title", title>>, <<"content", JList(xs)>> >>)

WalkLevel1 ==
    {Nest(t, xs) : t \in {Absent, JStr(T_Calm)}, xs \in SeqsUpTo(WalkLeaves, MaxChildren)}

WalkLevel2 == {Nest(t, <<x>>) : t \in {Absent, JStr(T_Outer)}, x \in WalkLevel1}

\* k mappings nested through their "child" key around one URL node
RECURSIVE Chain(_)
Chain(k) == IF k = 0 THEN N_A ELSE Obj(<< <<"child", Chain(k - 1)>> >>)

WalkTrees ==
    WalkLeaves \cup WalkLevel1 \cup WalkLevel2
    \cup {Chain(k) : k \in 1..RecursionLimit}
    \cup {JList(<<N_BInner, Chain(RecursionLimit)>>), JNull, JStr(U_a)}

\* one call of _collect_media_recursive
WalkCall(node, inherited) ==
    /\ fcall = NoFcall
    /\ fcall' = [made |-> TRUE, fn |-> "_collect_media_recursive", in |-> node,
                 inherited |-> inherited,
                 out |-> CollectWithinLimit(node, JStr(S_Sleep), JStr(P_Yoga),
                                            JStr(<<>>), inherited)]
    /\ UNCHANGED <<warned, warnings, marker_met, call, ncalls, web, sections,
                   media_items, by_section, pc, idx, todo, runs, run1, files, catalogs,
                   seen, dl>>

NextWalk ==
    \/ \E node \in WalkTrees, inherited \in {JNull, JStr(P_Yoga)} :
           WalkCall(node, inherited)
    \/ FnReturn

SpecWalk == InitItem /\ [][NextWalk]_vars

(***************************************************************************)
(* Properties of _collect_media_recursive (under SpecWalk)                 *)
(***************************************************************************)
\* the call at hand is one of _collect_media_recursive
Walked == fcall.made /\ fcall.fn = "_collect_media_recursive"

\* the concatenation of the sequences of a sequence
RECURSIVE Flatten(_)
Flatten(ss) == IF ss = <<>> THEN <<>> ELSE ss[1] \o Flatten(Tail(ss))

\* The mapping nodes of a tree in document order, a node before its
\* descendants and siblings in tree order, each with its ancestors (the
\* mappings around it, outermost first).
RECURSIVE Preorder(_, _)
Preorder(node, anc) ==
    IF IsDict(node)
    THEN <<[node |-> node, anc |-> anc]>>
         \o Flatten([i \in 1..Len(node.kv) |-> Preorder(node.kv[i][2], Append(anc, node))])
    ELSE IF IsList(node)
    THEN Flatten([i \in 1..Len(node.xs) |-> Preorder(node.xs[i], anc)])
    ELSE <<>>

\* the string values the node has under downloadUrl, absoluteUrl, URL, in
\* that order
UrlValues(node) ==
    LET present == SelectSeq(UrlKeys, LAMBDA k : Has(node, k) /\ IsStr(Get(node, k)))
    IN  [i \in 1..Len(present) |-> Get(node, present[i]).s]

\* the titles of the nodes of anc that have one
TitlesOf(anc) ==
    LET titled == SelectSeq(anc, LAMBDA a : Truthy(Get(a, "title")))
    IN  [i \in 1..Len(titled) |-> Get(titled[i], "title")]

\* the title the walk hands down to a node with the ancestors anc: the one
\* the walk was called with if any, else the first title met on the way down
HandedDown(anc, inherited) ==
    IF Truthy(inherited) THEN inherited
    ELSE IF TitlesOf(anc) # <<>> THEN TitlesOf(anc)[1]
    ELSE JNull

\* the title of the nearest ancestor that has one, else the one the walk was
\* called with
NearestTitle(anc, inherited) ==
    IF TitlesOf(anc) # <<>> THEN TitlesOf(anc)[Len(TitlesOf(anc))]
    ELSE inherited

\* own title, else subTitle, else the inherited title, else "Session"
TitleFor(node, inherited) ==
    IF Truthy(Get(node, "title")) THEN Get(node, "title")
    ELSE IF Truthy(Get(node, "subTitle")) THEN Get(node, "subTitle")
    ELSE IF Truthy(inherited) THEN inherited
    ELSE JStr(<<"S","e","s","s","i","o","n">>)

\* the URL nodes of the tree walked by the call at hand, in document order
UrlNodes ==
    SelectSeq(Preorder(fcall.in, <<>>), LAMBDA p : UrlValues(p.node) # <<>>)

\* what the call at hand emitted: <<URL, title, media type>> per reference
Emitted ==
    [i \in 1..Len(fcall.out.items) |->
        <<fcall.out.items[i].cdn_url, fcall.out.items[i].session_title,
          fcall.out.items[i].media_type>>]

\* C16: a walk that returns has emitted one reference per mapping node with
\* a string under downloadUrl, absoluteUrl or URL and none for any other
\* node, in document order (a node before its descendants); the title is the
\* node's own title, else its subTitle, else the title handed down to it, else
\* "Session"; the media type is audio exactly when the URL ends in .mp3.
C16_OneReferencePerUrlNode ==
    (Walked /\ fcall.out.ok) =>
        Emitted =
            [i \in 1..Len(UrlNodes) |->
                <<UrlValues(UrlNodes[i].node)[1],
                  TitleFor(UrlNodes[i].node, HandedDown(UrlNodes[i].anc, fcall.inherited)),
                  IF EndsWith(UrlValues(UrlNodes[i].node)[1], <<".","m","p","3">>)
                  THEN "audio" ELSE "video">>]

\* the mapping nodes of the tree walked that have a key downloadUrl,
\* absoluteUrl or URL, whatever its value
KeyNodes ==
    SelectSeq(Preorder(fcall.in, <<>>),
              LAMBDA p : IsDict(p.node) /\ \E i \in 1..3 : Has(p.node, UrlKeys[i]))

\* C16 as stated: one reference per mapping node that has a known direct-URL
\* key, whatever the value under it.
C16_OneReferencePerKeyNode ==
    (Walked /\ fcall.out.ok) => Len(fcall.out.items) = Len(KeyNodes)

\* a walk over a titled mapping around two URL nodes, the first titleless
\* (.mp3) and the second with a subTitle (no .mp3), that was handed no title
C16_Witness ==
    /\ Walked
    /\ fcall.out.ok
    /\ fcall.inherited = JNull
    /\ fcall.in = Nest(JStr(T_Calm), <<N_A, N_BInner>>)
    /\ Emitted = << <<U_a, JStr(T_Calm), "audio">>, <<U_b, JStr(T_Inner), "video">> >>

\* C17 as stated: a URL node with neither title nor subTitle gets the title
\* of its nearest titled ancestor, and the title the walk was called with
\* only when no ancestor has one.
C17_NearestTitleWins ==
    (Walked /\ fcall.out.ok) =>
        \A i \in 1..Len(UrlNodes) :
            Emitted[i][2] =
                TitleFor(UrlNodes[i].node, NearestTitle(UrlNodes[i].anc, fcall.inherited))

\* C18 as stated: the walk returns on every tree, however deep, without
\* raising.
C18_WalkNeverRaises == Walked => fcall.out.ok

\* the first non-empty of the node's URL values; <<>> when it has none
FirstFilledUrl(node) ==
    LET filled == SelectSeq(UrlValues(node), LAMBDA u : u # <<>>)
    IN  IF filled = <<>> THEN <<>> ELSE filled[1]

\* C19 as stated (under SpecItem): no candidate reference has an empty URL,
\* and when the content field is a single direct-URL node, every reference the
\* content step and the walk emit for it carries the first non-empty of its
\* downloadUrl, absoluteUrl, URL.
C19_FirstNonEmptyUrl ==
    call.made =>
        /\ \A i \in 1..Len(call.r.cand) : call.r.cand[i].cdn_url # <<>>
        /\ LET content == Get(call.item, "content")
           IN  (IsDict(content) /\ Depth(content) = 2) =>
                   \A i \in 1..Len(call.r.cand) :
                       call.r.steps[i] \in {3, 4} =>
                           call.r.cand[i].cdn_url = FirstFilledUrl(content)

\* ---------------------------------------------------------------------
\* _extract_preloaded_state(html)
\* ---------------------------------------------------------------------

Str_PRELOADED_STATE == <<"_","_","P","R","E","L","O","A","D","E","D","_","S","T","A","T","E","_","_">>
Str_window_PRELOADED_STATE == <<"w","i","n","d","o","w",".","_","_","P","R","E","L","O","A","D","E","D","_","S","T","A","T","E","_","_">>
Str_undefined == <<"u","n","d","e","f","i","n","e","d">>
Str_null == <<"n","u","l","l">>

\* p occurs in s at position i
OccursAt(s, p, i) == i + Len(p) - 1 <= Len(s) /\ SubSeq(s, i, i + Len(p) - 1) = p

\* p in s
Contains(s, p) == \E i \in 1..(Len(s) + 1) : OccursAt(s, p, i)

\* the characters \s matches and json.loads skips, among those of the texts
WhiteSpace == {" ", "\t", "\n", "\r"}

\* the first position from i on that holds no white space
RECURSIVE SkipSpace(_, _)
SkipSpace(s, i) ==
    IF i <= Len(s) /\ s[i] \in WhiteSpace THEN SkipSpace(s, i + 1) ELSE i

\* window\.__PRELOADED_STATE__\s*=\s*{ matched at position i: the position of
\* its '{', 0 when it does not match there
MatchAt(s, i) ==
    IF ~OccursAt(s, Str_window_PRELOADED_STATE, i) THEN 0
    ELSE LET eq == SkipSpace(s, i + Len(Str_window_PRELOADED_STATE))
             br == SkipSpace(s, eq + 1)
         IN  IF eq <= Len(s) /\ s[eq] = "=" /\ br <= Len(s) /\ s[br] = "{" THEN br ELSE 0

\* re.search(...).end() - 1: the '{' of the leftmost match, 0 without a match
StartMatch(s) ==
    IF \E i \in 1..Len(s) : MatchAt(s, i) # 0
    THEN MatchAt(s, CHOOSE i \in 1..Len(s) :
                        MatchAt(s, i) # 0 /\ \A j \in 1..(i - 1) : MatchAt(s, j) = 0)
    ELSE 0

\* the loop of lines 226-234 from pos with the given brace_count: the
\* position of the '}' that brings the count back to zero, 0 when the text
\* ends first.  Every '{' and '}' counts, inside a string value as well.
RECURSIVE BraceEnd(_, _, _)
BraceEnd(s, pos, brace_count) ==
    IF pos > Len(s) THEN 0
    ELSE IF s[pos] = "{" THEN BraceEnd(s, pos + 1, brace_count + 1)
    ELSE IF s[pos] = "}"
    THEN IF brace_count - 1 = 0 THEN pos ELSE BraceEnd(s, pos + 1, brace_count - 1)
    ELSE BraceEnd(s, pos + 1, brace_count)

\* re.sub(r"undefined", "null", s): every occurrence, from the left, inside
\* string values too
RECURSIVE SubUndefined(_)
SubUndefined(s) ==
    IF s = <<>> THEN <<>>
    ELSE IF StartsWith(s, Str_undefined)
    THEN Str_null \o SubUndefined(SubSeq(s, Len(Str_undefined) + 1, Len(s)))
    ELSE <<Head(s)>> \o SubUndefined(Tail(s))

\* json.loads on the JSON of the texts at hand: objects, arrays, strings with
\* the escapes \" and \\, null and the integers without sign.  A decoding
\* step returns the value and the position after it, or ok = FALSE for
\* JSONDecodeError.
Undecoded == [ok |-> FALSE]

Decoded(v, i) == [ok |-> TRUE, v |-> v, i |-> i]

\* the string whose opening quote precedes position i
RECURSIVE ScanString(_, _, _)
ScanString(s, i, acc) ==
    IF i > Len(s) THEN Undecoded
    ELSE IF s[i] = "\"" THEN Decoded(acc, i + 1)
    ELSE IF s[i] = "\\"
    THEN IF i + 1 <= Len(s) /\ s[i + 1] \in {"\"", "\\"}
         THEN ScanString(s, i + 2, Append(acc, s[i + 1]))
         ELSE Undecoded
    ELSE IF s[i] \in {"\n", "\r", "\t"} THEN Undecoded
    ELSE ScanString(s, i + 1, Append(acc, s[i]))

IsDigit(c) == \E d \in 1..Len(Digits) : Digits[d] = c

RECURSIVE ScanInt(_, _, _)
ScanInt(s, i, n) ==
    IF i <= Len(s) /\ IsDigit(s[i])
    THEN ScanInt(s, i + 1, 10 * n + IndexOf(Digits, s[i]) - 1)
    ELSE Decoded(JInt(n), i)

\* d[key] = v on the pairs of a dict: a key met again keeps its place
SetKey(kv, key, v) ==
    IF \E k \in 1..Len(kv) : kv[k][1] = key
    THEN [k \in 1..Len(kv) |-> IF kv[k][1] = key THEN <<key, v>> ELSE kv[k]]
    ELSE Append(kv, <<key, v>>)

RECURSIVE DecodeValue(_, _)
RECURSIVE DecodeMembers(_, _, _)
RECURSIVE DecodeElements(_, _, _)

\* the members of an object from the key expected at position i on
DecodeMembers(s, i, kv) ==
    IF i > Len(s) \/ s[i] # "\"" THEN Undecoded
    ELSE LET key == ScanString(s, i + 1, <<>>)
             AfterValue(val) ==
                 LET j == SkipSpace(s, val.i)
                     got == SetKey(kv, key.v, val.v)
                 IN  IF j > Len(s) THEN Undecoded
                     ELSE IF s[j] = "}" THEN Decoded(JDict(got), j + 1)
                     ELSE IF s[j] = "," THEN DecodeMembers(s, SkipSpace(s, j + 1), got)
                     ELSE Undecoded
             AfterKey(colon) ==
                 IF colon > Len(s) \/ s[colon] # ":" THEN Undecoded
                 ELSE LET val == DecodeValue(s, colon + 1)
                      IN  IF val.ok THEN AfterValue(val) ELSE Undecoded
         IN  IF key.ok THEN AfterKey(SkipSpace(s, key.i)) ELSE Undecoded

\* the elements of an array from the value expected at position i on
DecodeElements(s, i, xs) ==
    LET val == DecodeValue(s, i)
        AfterValue(j) ==
            IF j > Len(s) THEN Undecoded
            ELSE IF s[j] = "]" THEN Decoded(JList(Append(xs, val.v)), j + 1)
            ELSE IF s[j] = "," THEN DecodeElements(s, j + 1, Append(xs, val.v))
            ELSE Undecoded
    IN  IF val.ok THEN AfterValue(SkipSpace(s, val.i)) ELSE Undecoded

DecodeValue(s, i) ==
    LET j == SkipSpace(s, i)
        Str(r) == IF r.ok THEN Decoded(JStr(r.v), r.i) ELSE Undecoded
        Object(k) == IF k <= Len(s) /\ s[k] = "}" THEN Decoded(JDict(<<>>), k + 1)
                     ELSE DecodeMembers(s, k, <<>>)
        Array(k) == IF k <= Len(s) /\ s[k] = "]" THEN Decoded(JList(<<>>), k + 1)
                    ELSE DecodeElements(s, k, <<>>)
    IN  IF j > Len(s) THEN Undecoded
        ELSE IF s[j] = "\"" THEN Str(ScanString(s, j + 1, <<>>))
        ELSE IF s[j] = "{" THEN Object(SkipSpace(s, j + 1))
        ELSE IF s[j] = "[" THEN Array(SkipSpace(s, j + 1))
        ELSE IF OccursAt(s, Str_null, j) THEN Decoded(JNull, j + Len(Str_null))
        ELSE IF s[j] = "0" THEN Decoded(JInt(0), j + 1)
        ELSE IF IsDigit(s[j]) THEN ScanInt(s, j, 0)
        ELSE Undecoded

\* json.loads(s): the one value of the text, nothing but white space after it
Loads(s) ==
    LET r == DecodeValue(s, 1)
    IN  IF r.ok /\ SkipSpace(s, r.i) > Len(s) THEN [ok |-> TRUE, v |-> r.v] ELSE Undecoded

\* one pass of the loop over soup.find_all("script"): the state the script
\* text gives, ok = FALSE when the loop goes on to the next script.  script is
\* script.string: a JStr, or JNull for a script element without one.
FromScript(script) ==
    LET stext == script.s
        Cut(start, end) == IF end = 0 THEN Undecoded
                           ELSE Loads(SubUndefined(SubSeq(stext, start, end)))
        From(start) == IF start = 0 THEN Undecoded
                       ELSE Cut(start, BraceEnd(stext, start, 0))
    IN  IF ~IsStr(script) THEN Undecoded
        ELSE IF stext = <<>> \/ ~Contains(stext, Str_PRELOADED_STATE) THEN Undecoded
        ELSE From(StartMatch(stext))

\* _extract_preloaded_state on the script elements of the page, in document
\* order: the first state a script gives, None (JNull) when none does
RECURSIVE ExtractPreloadedState(_)
ExtractPreloadedState(scripts) ==
    LET First(r) == IF r.ok THEN r.v ELSE ExtractPreloadedState(Tail(scripts))
    IN  IF scripts = <<>> THEN JNull ELSE First(FromScript(Head(scripts)))

\* --- the pages ---------------------------------------------------------

MaxOtherScripts == 1

\* json.dumps(v, separators=(",", ":")) of the values of the pages
RECURSIVE Dumps(_)
RECURSIVE DumpsAll(_, _)
DumpsAll(parts, sep) ==
    IF parts = <<>> THEN <<>>
    ELSE IF Len(parts) = 1 THEN parts[1]
    ELSE parts[1] \o sep \o DumpsAll(Tail(parts), sep)

Quoted(s) ==
    <<"\"">> \o DumpsAll([i \in 1..Len(s) |->
                             IF s[i] \in {"\"", "\\"} THEN <<"\\", s[i]>> ELSE <<s[i]>>], <<>>)
    \o <<"\"">>

RECURSIVE Decimal(_)
Decimal(n) == IF n < 10 THEN <<Digits[n + 1]>> ELSE Decimal(n \div 10) \o <<Digits[(n % 10) + 1]>>

Dumps(v) ==
    IF IsStr(v) THEN Quoted(v.s)
    ELSE IF v.t = "int" THEN Decimal(v.n)
    ELSE IF IsDict(v)
    THEN <<"{">> \o DumpsAll([i \in 1..Len(v.kv) |->
                                 Quoted(v.kv[i][1]) \o <<":">> \o Dumps(v.kv[i][2])], <<",">>)
         \o <<"}">>
    ELSE IF IsList(v)
    THEN <<"[">> \o DumpsAll([i \in 1..Len(v.xs) |-> Dumps(v.xs[i])], <<",">>) \o <<"]">>
    ELSE Str_null

K_a == <<"a">>
K_b == <<"b">>
K_n == <<"n">>

\* the states: flat, nested, empty, with a list, and with a brace or the
\* word undefined inside a string value
O_Plain == JDict(<< <<K_a, JStr(<<"x">>)>> >>)
O_Nested == JDict(<< <<K_a, JDict(<< <<K_b, JStr(<<"x">>)>> >>)>>, <<K_n, JInt(12)>> >>)
O_Empty == JDict(<<>>)
O_List == JDict(<< <<K_a, JList(<<JDict(<< <<K_b, JNull>> >>), JInt(0)>>)>> >>)
O_Close == JDict(<< <<K_a, JStr(<<"}">>)>> >>)
O_Open == JDict(<< <<K_a, JStr(<<"{">>)>> >>)
O_Pair == JDict(<< <<K_a, JStr(<<"{","}">>)>> >>)
O_Quote == JDict(<< <<K_a, JStr(<<"\"","{">>)>>, <<K_b, JDict(<<>>)>> >>)
O_Undefined == JDict(<< <<K_a, JStr(Str_undefined)>> >>)
O_UndefinedKey == JDict(<< <<Str_undefined, JInt(1)>> >>)

States ==
    {O_Plain, O_Nested, O_Empty, O_List, O_Close, O_Open, O_Pair, O_Quote,
     O_Undefined, O_UndefinedKey}

\* what precedes the object in its script, and what follows it
Assignments ==
    {Str_window_PRELOADED_STATE \o <<"=">>,
     <<"v","a","r"," ","a","=","{","}",";">> \o Str_window_PRELOADED_STATE \o <<" ","="," ">>}

Terminators == {<<>>, <<";">>, <<";","\n","v","a","r"," ","b","=","{","}",";">>}

\* a script element that refers to a file, one without the marker, one that
\* names the marker without assigning to it, and one whose assignment is cut
\* short
OtherScripts ==
    {JNull,
     JStr(<<"v","a","r"," ","c","=","{","}",";">>),
     JStr(<<"i","f","(","w","i","n","d","o","w",".","_","_","P","R","E","L","O","A","D","E","D","_","S","T","A","T","E","_","_",")","{","}">>),
     JStr(Str_window_PRELOADED_STATE \o <<" ","="," ","{">>)}

Around == {<<>>} \cup SeqsUpTo(OtherScripts, MaxOtherScripts)

\* the script elements of a page rendered from the state obj
Page(before, assign, obj, term, after) ==
    before \o <<JStr(assign \o Dumps(obj) \o term)>> \o after

\* the state a browser would see but json.loads would not: a value undefined
Str_JsState == <<"{","\"","a","\"",":","u","n","d","e","f","i","n","e","d","}">>

NoState == [t |-> "none"]

StateCall(scripts, obj) ==
    /\ fcall = NoFcall
    /\ fcall' = [made |-> TRUE, fn |-> "_extract_preloaded_state", in |-> scripts,
                 state |-> obj, out |-> ExtractPreloadedState(scripts)]
    /\ UNCHANGED <<warned, warnings, marker_met, call, ncalls, web, sections,
                   media_items, by_section, pc, idx, todo, runs, run1, files, catalogs,
                   seen, dl>>

NextState ==
    \/ \E before \in Around, after \in Around, assign \in Assignments,
          obj \in States, term \in Terminators :
           StateCall(Page(before, assign, obj, term, after), obj)
    \/ \E before \in Around :
           StateCall(before \o <<JStr(Str_window_PRELOADED_STATE \o <<"=">> \o Str_JsState)>>,
                       NoState)
    \/ FnReturn

SpecState == InitItem /\ [][NextState]_vars

\* the call at hand is one of _extract_preloaded_state on a page rendered
\* from a state
Extracted == fcall.made /\ fcall.fn = "_extract_preloaded_state"

\* C14 as stated: from a page whose script assigns a valid JSON object to
\* the marker, whatever the braces and words inside its string values and
\* whatever the scripts around it, the call returns that object.
C14_ReturnsEmbeddedObject ==
    (Extracted /\ fcall.state # NoState) => fcall.out = fcall.state

\* ---------------------------------------------------------------------
\* download_media(retry_failed_only), _download_all_async, _download_one
\* ---------------------------------------------------------------------

MaxQueue == 2
MaxConcurrent == 2

\* the media items: one URL under two local paths
M_up == [cdn_url |-> "u", local_path |-> "p"]
M_uq == [cdn_url |-> "u", local_path |-> "q"]

MediaItems == {M_up, M_uq}

MediaUrls == {"u"}

\* manifest entries: none for a URL the manifest does not have
NoEntry == [status |-> "none", path |-> "none"]

Success(path) == [status |-> "success", path |-> path]

HttpStatus(code, path) == [status |-> IF code = 404 THEN "http_404" ELSE "http_other", path |-> path]

Failed(path) == [status |-> "error", path |-> path]

\* the manifests loaded from the manifest file: u unknown, downloaded to p,
\* or failed last time
Manifests ==
    {[url \in MediaUrls |-> e] : e \in {NoEntry, Success("p"), HttpStatus(404, "p")}}

\* the media files on disk when the run begins
Disks == SUBSET {"p", "q"}

\* lines 672-684 for one item: is it appended to to_dl
Selected(m, manifest, disk, retry_failed_only) ==
    LET entry == manifest[m.cdn_url]
        status == entry.status
        cached_path == IF entry = NoEntry THEN m.local_path ELSE entry.path
        file_on_disk == cached_path \in disk
    IN  IF status = "success" /\ file_on_disk /\ ~retry_failed_only THEN FALSE
        ELSE IF retry_failed_only /\ status # "success" THEN TRUE
        ELSE ~retry_failed_only

\* to_dl of lines 670-684
ToDl(items, manifest, disk, retry_failed_only) ==
    SelectSeq(items, LAMBDA m : Selected(m, manifest, disk, retry_failed_only))

\* a fast path without the check of the manifest
NeverDone(manifest, disk, url) == FALSE

\* lines 623-630: the manifest has the URL as a success and the file it
\* recorded is on disk
AlreadyDone(manifest, disk, url) ==
    manifest[url].status = "success" /\ manifest[url].path \in disk

\* a semaphore that never blocks
SlotAlwaysFree(sem) == TRUE

\* async with sem: the task goes on when the semaphore has a slot left
SlotFree(sem) == sem > 0

Queued == [pc |-> "queued", fetched |-> FALSE]

\* download_media up to asyncio.run: picks the items, and when any is left
\* creates one task per item and the semaphore
DownloadMedia(items, manifest, disk, retry_failed_only, max_concurrent) ==
    /\ dl = NoDl
    /\ fcall = NoFcall
    /\ LET to_dl == ToDl(items, manifest, disk, retry_failed_only)
       IN  dl' = [pc |-> IF to_dl = <<>> THEN "finished" ELSE "running",
                  retry_failed_only |-> retry_failed_only,
                  max_concurrent |-> max_concurrent,
                  media_items |-> items,
                  manifest0 |-> manifest,
                  disk0 |-> disk,
                  manifest |-> manifest,
                  disk |-> disk,
                  to_dl |-> to_dl,
                  task |-> [t \in 1..Len(to_dl) |-> Queued],
                  sem |-> max_concurrent,
                  manifest_file |-> manifest]
    /\ UNCHANGED <<warned, warnings, marker_met, call, ncalls, web, sections,
                   media_items, by_section, pc, idx, todo, runs, run1, files, catalogs,
                   seen, fcall>>

dlFrame ==
    UNCHANGED <<warned, warnings, marker_met, call, ncalls, web, sections,
                media_items, by_section, pc, idx, todo, runs, run1, files, catalogs,
                seen, fcall>>

Running == dl.pc = "running"

Tasks == IF Running THEN 1..Len(dl.task) ELSE {}

\* gather starts the tasks in list order and each runs up to its first
\* await, so the first max_concurrent tasks take their slots before any
\* response arrives
InBurst ==
    \E t \in Tasks : t <= dl.max_concurrent /\ dl.task[t].pc = "queued"

\* task t takes a slot (the semaphore wakes its waiters in order) and runs
\* _download_one up to its first await: lines 618-633, then either the
\* return or the start of the fetch of line 636
Start(t) ==
    /\ Running
    /\ t \in Tasks
    /\ dl.task[t].pc = "queued"
    /\ \A j \in 1..(t - 1) : dl.task[j].pc # "queued"
    /\ SlotFree(dl.sem)
    /\ LET url == dl.to_dl[t].cdn_url
           local_path == dl.to_dl[t].local_path
       IN  IF local_path \in dl.disk
           THEN dl' = [dl EXCEPT !.sem = @ - 1,
                                 !.manifest[url] = Success(local_path),
                                 !.task[t].pc = "settling"]
           ELSE IF AlreadyDone(dl.manifest, dl.disk, url)
           THEN dl' = [dl EXCEPT !.sem = @ - 1, !.task[t].pc = "settling"]
           ELSE dl' = [dl EXCEPT !.sem = @ - 1,
                                 !.manifest[url] = IF @.status = "success" THEN NoEntry ELSE @,
                                 !.task[t] = [pc |-> "fetching", fetched |-> TRUE]]
    /\ dlFrame

\* the response arrives: 200 opens the file for writing, any other status is
\* recorded and _download_one returns
Respond(t, code) ==
    /\ Running /\ ~InBurst
    /\ t \in Tasks
    /\ dl.task[t].pc = "fetching"
    /\ LET url == dl.to_dl[t].cdn_url
           local_path == dl.to_dl[t].local_path
       IN  IF code = 200
           THEN dl' = [dl EXCEPT !.disk = @ \cup {local_path}, !.task[t].pc = "writing"]
           ELSE dl' = [dl EXCEPT !.manifest[url] = HttpStatus(code, local_path),
                                 !.task[t].pc = "settling"]
    /\ dlFrame

\* the request or the transfer raises (the timeout of 120 s included):
\* line 647
Raise(t) ==
    /\ Running /\ ~InBurst
    /\ t \in Tasks
    /\ dl.task[t].pc \in {"fetching", "writing"}
    /\ dl' = [dl EXCEPT !.manifest[dl.to_dl[t].cdn_url] = Failed(dl.to_dl[t].local_path),
                        !.task[t].pc = "settling"]
    /\ dlFrame

\* the last chunk is written: line 641
Written(t) ==
    /\ Running /\ ~InBurst
    /\ t \in Tasks
    /\ dl.task[t].pc = "writing"
    /\ dl' = [dl EXCEPT !.manifest[dl.to_dl[t].cdn_url] = Success(dl.to_dl[t].local_path),
                        !.task[t].pc = "settling"]
    /\ dlFrame

\* asyncio.sleep(self.delay) is over: the task leaves async with sem
Release(t) ==
    /\ Running /\ ~InBurst
    /\ t \in Tasks
    /\ dl.task[t].pc = "settling"
    /\ dl' = [dl EXCEPT !.sem = @ + 1, !.task[t].pc = "done"]
    /\ dlFrame

\* gather returns: the manifest is written to its file
Finish ==
    /\ Running
    /\ \A t \in Tasks : dl.task[t].pc = "done"
    /\ dl' = [dl EXCEPT !.pc = "finished", !.manifest_file = dl.manifest]
    /\ dlFrame

TaskStep ==
    \E t \in 1..MaxQueue :
        \/ Start(t)
        \/ \E code \in {200, 404} : Respond(t, code)
        \/ Raise(t)
        \/ Written(t)
        \/ Release(t)

NextDl ==
    \/ \E items \in SeqsUpTo(MediaItems, MaxQueue), manifest \in Manifests, disk \in Disks,
          retry_failed_only \in BOOLEAN, max_concurrent \in 1..MaxConcurrent :
           DownloadMedia(items, manifest, disk, retry_failed_only, max_concurrent)
    \/ TaskStep
    \/ Finish

SpecDl == InitItem /\ [][NextDl]_vars

\* the event loop runs every task that can go on, every request ends within
\* its timeout and every sleep ends
SpecDlFair == SpecDl /\ WF_vars(TaskStep) /\ WF_vars(Finish)

\* --- properties of the download stage ------------------------------------

UrlOf(t) == dl.to_dl[t].cdn_url

PathOf(t) == dl.to_dl[t].local_path

\* the manifest has the URL as a success whose file is on disk
Recorded(url) == dl.manifest[url].status = "success" /\ dl.manifest[url].path \in dl.disk

\* C11: whenever a task starts its fetch (it leaves the queue for the
\* request of line 636), the manifest entry of its URL is not a success
\* whose recorded path is on disk, whatever the list of items and the order
\* in which the tasks run.
C11_NoFetchOfRecorded ==
    [][\A t \in 1..MaxQueue :
          (Running /\ t \in Tasks /\ dl.task[t].pc = "queued" /\ dl'.task[t].pc = "fetching")
              => ~Recorded(UrlOf(t))]_vars

\* a task for u under q, not on disk, has returned without a fetch because
\* the manifest records u as a success under p, which is on disk
C11_Witness ==
    /\ Running
    /\ \E t \in Tasks :
           /\ dl.to_dl[t] = M_uq
           /\ dl.task[t].pc = "settling"
           /\ ~dl.task[t].fetched
           /\ "q" \notin dl.disk
           /\ dl.manifest["u"] = Success("p")
           /\ "p" \in dl.disk

\* the URLs of the run that the manifest it began with has as a success
\* whose file is gone
Stale(url) ==
    /\ \E i \in 1..Len(dl.media_items) : dl.media_items[i].cdn_url = url
    /\ dl.manifest0[url].status = "success"
    /\ dl.manifest0[url].path \notin dl.disk0

\* C12 as stated: a run that began with a stale success entry, in either
\* mode, has selected an item of its URL, and once it has finished the entry
\* is a success only if its file is on disk.
C12_StaleEntryDemoted ==
    (dl.pc = "finished") =>
        \A url \in MediaUrls :
            Stale(url) =>
                /\ \E t \in 1..Len(dl.to_dl) : dl.to_dl[t].cdn_url = url
                /\ dl.manifest[url].status = "success" => dl.manifest[url].path \in dl.disk

\* the same for the runs with retry_failed_only false
C12_StaleEntryDemotedFullRun ==
    (dl.pc = "finished" /\ ~dl.retry_failed_only) =>
        \A url \in MediaUrls :
            Stale(url) =>
                /\ \E t \in 1..Len(dl.to_dl) : dl.to_dl[t].cdn_url = url
                /\ dl.manifest[url].status = "success" => dl.manifest[url].path \in dl.disk

\* the tasks inside _download_one
InFlight == {t \in Tasks : dl.task[t].pc \in {"fetching", "writing"}}

\* the tasks waiting for a slot
Waiting(t) == Running /\ t \in Tasks /\ dl.task[t].pc = "queued"

\* the semaphore gains a slot only in a step of a task whose _download_one
\* has returned and whose sleep is over
ReleasedAfterSettle ==
    (Running /\ dl'.pc = "running" /\ dl'.sem > dl.sem) =>
        /\ dl'.sem = dl.sem + 1
        /\ \E t \in Tasks : dl.task[t].pc = "settling" /\ dl'.task[t].pc = "done"

\* C13: never more than max_concurrent tasks are inside _download_one; a
\* slot comes back only when a task's transfer is over and its delay has
\* elapsed; every task waiting for a slot gets one.
C13_BoundedPool ==
    /\ [](Cardinality(InFlight) <= (IF Running THEN dl.max_concurrent ELSE 0))
    /\ [][ReleasedAfterSettle]_vars
    /\ \A t \in 1..MaxQueue : Waiting(t) ~> ~Waiting(t)

\* one slot, taken by a task inside its fetch, and a second task waiting
C13_Witness ==
    /\ Running
    /\ dl.max_concurrent = 1
    /\ dl.sem = 0
    /\ Len(dl.task) = 2
    /\ dl.task[1].pc = "fetching"
    /\ dl.task[2].pc = "queued"

\* C20 as stated: a call of _download_one that finds its URL recorded as a
\* success under another path, the file of which is on disk, and returns,
\* leaves the entry as it was.
C20_SuccessEntryKept ==
    [][\A t \in 1..MaxQueue :
          (/\ Running /\ t \in Tasks
           /\ dl.task[t].pc = "queued" /\ dl'.task[t].pc = "settling"
           /\ Recorded(UrlOf(t))
           /\ dl.manifest[UrlOf(t)].path # PathOf(t))
              => dl'.manifest[UrlOf(t)] = dl.manifest[UrlOf(t)]]_vars

\* C21 as stated: in a run whose manifest did not have the URL, of two tasks
\* for the same URL under different local paths at most one has started a
\* fetch, whatever the order in which the tasks ran.
C21_OneFetchPerUrl ==
    Running =>
        \A s \in Tasks, t \in Tasks :
            (/\ s # t
             /\ UrlOf(s) = UrlOf(t)
             /\ PathOf(s) # PathOf(t)
             /\ dl.manifest0[UrlOf(s)] = NoEntry)
                => ~(dl.task[s].fetched /\ dl.task[t].fetched)

\* the same when the tasks run one after the other and every response is a
\* 200 whose transfer completes: the second task finds the entry of the first
C21_OneFetchPerUrlInTurn ==
    (Running /\ dl.max_concurrent = 1) =>
        \A s \in Tasks, t \in Tasks :
            (/\ s < t
             /\ UrlOf(s) = UrlOf(t)
             /\ dl.task[s].fetched /\ dl.task[t].fetched)
                => ~(dl.manifest[UrlOf(s)] = Success(PathOf(s)) /\ dl.task[t].pc = "fetching")

====
